---- MODULE Spec2Model ----
(***************************************************************************)
(* Check-suite resolution and check-run publication of lint-action         *)
(* (src/github/api.js, src/utils/request.js).  Each program is a state     *)
(* machine whose steps are the suspension points (awaits) of the code:     *)
(*   - createCheck                      (SpecPublish)                      *)
(*   - getCurrentRunCheckSuiteId, the retrying heuristic generation        *)
(*                                      (SpecHeuristic)                    *)
(*   - getCurrentRunCheckSuiteId, the single-lookup generation             *)
(*                                      (SpecDeterministic)                *)
(*   - sanitizeHeaders                  (SpecSanitize)                     *)
(*   - the match rule of check runs     (SpecMatch)                        *)
(*   - request                          (SpecRequest)                      *)
(* JavaScript values are records [t, v] where t is the typeof tag, so      *)
(* that values of different JavaScript types can be compared.              *)
(***************************************************************************)
EXTENDS Integers, Sequences, FiniteSets, TLC

VARIABLES
    \* ---- createCheck
    pcCheck,                \* "start" | "post" | "done" | "rejected"
    linterName,             \* argument
    lintResult,             \* argument: JS null or [isSuccess, error, warning]
    neutralCheckOnWarning,  \* argument
    suiteIdArg,             \* argument checkSuiteId as passed (may be undefined)
    body,                   \* the request body handed to request()
    posts,                  \* sequence of bodies POSTed to check-runs
    infoLog,                \* core.info lines of createCheck
    errorLog,               \* core.error lines of createCheck
    thrown,                 \* the error createCheck rejected with
    postError,              \* the error the POST rejected with (err)
    \* ---- heuristic getCurrentRunCheckSuiteId
    pc,                     \* position of the resolver
    opts,                   \* options and environment of the invocation
    attempt,                \* loop counter
    runCandidateSuiteId,    \* remembered run-lookup candidate
    result,                 \* the returned value
    warnings,               \* core.warning lines
    trace,                  \* network calls and sleeps, in order
    allRejected,            \* no network call of the invocation has resolved
    \* ---- deterministic getCurrentRunCheckSuiteId
    pcDet,                  \* position of the resolver
    detOpts,                \* options of the invocation
    detResponse,            \* outcome of GET check-runs/{id}
    detResult,              \* the returned value
    detWarnings,            \* core.warning lines
    detCalls,               \* network calls, in order
    detDebugLog,            \* [check-suite-debug] events
    \* ---- sanitizeHeaders (utils/request.js)
    pcSan,                  \* "idle" | "start" | "done"
    headersArg,             \* argument headers
    sanitized,              \* the returned value
    \* ---- the match rule (hasCheckRunForWorkflowRun, getSuiteIdForWorkflowRun)
    pcMatch,                \* "idle" | "start"
    matchInput,             \* arguments runId and checkRuns
    matchVerified,          \* "pending" | "true" | "false"
    matchFallback,          \* Undefined while pending, then null or the id
    \* ---- request (utils/request.js)
    pcReq,                  \* position: start, pending, receiving, ended, failed, threw
    reqArgs,                \* arguments url and options
    reqSent,                \* what req.end was given
    reqResponse,            \* res, once the response callback ran
    data,                   \* the body text read from the response
    promise,                \* the promise request() returned
    uncaught                \* an exception escaped an event handler

publishVars == <<pcCheck, linterName, lintResult, neutralCheckOnWarning, suiteIdArg,
                 body, posts, infoLog, errorLog, thrown, postError>>
heurVars == <<pc, opts, attempt, runCandidateSuiteId, result, warnings, trace,
              allRejected>>
detVars == <<pcDet, detOpts, detResponse, detResult, detWarnings, detCalls, detDebugLog>>
sanVars == <<pcSan, headersArg, sanitized>>
matchVars == <<pcMatch, matchInput, matchVerified, matchFallback>>
reqVars == <<pcReq, reqArgs, reqSent, reqResponse, data, promise, uncaught>>
vars == <<publishVars, heurVars, detVars, sanVars, matchVars, reqVars>>

(***************************************************************************)
(* JavaScript values                                                       *)
(***************************************************************************)
Null == [t |-> "null", v |-> 0]
Undefined == [t |-> "undefined", v |-> 0]
Num(n) == [t |-> "number", v |-> n]
\* a string, named by an index; index 0 is the empty string
Str(i) == [t |-> "string", v |-> i]
\* a number that is not an integer (1.5, NaN)
NonInteger == [t |-> "number-fraction", v |-> 0]

IsNumber(x) == x.t \in {"number", "number-fraction"}
IsInteger(x) == x.t = "number"
Truthy(x) ==
    CASE x.t = "number" -> x.v # 0
      [] x.t = "string" -> x.v # 0
      [] x.t = "number-fraction" -> TRUE
      [] OTHER -> FALSE

Min(a, b) == IF a < b THEN a ELSE b
Max(a, b) == IF a > b THEN a ELSE b

(***************************************************************************)
(* Bounds of the model                                                     *)
(***************************************************************************)
\* lint results carry 0..SmallCount findings of a level, or a number around
\* the annotation limit
SmallCount == 2
\* how far past the annotation limit a level's finding count goes
OverLimit == 2
\* suite ids and check-run ids are 1..MaxSuiteId
MaxSuiteId == 2
\* the largest retries option tried
MaxRetries == 2
\* check-run lists in responses have at most this many entries
MaxCheckRuns == 1
\* valid job check-run ids are 1..MaxJobCheckRunId
MaxJobCheckRunId == 3

(***************************************************************************)
(* createCheck                                                             *)
(***************************************************************************)
\* api.js:46,50: the limit for a single API request
AnnotationLimit == 50

Levels == <<"error", "warning">>

\* the i-th finding of a level: distinct findings, so that order is visible
Finding(level, i) ==
    [path |-> IF i % 2 = 0 THEN "a.js" ELSE "b.js",
     firstLine |-> i,
     lastLine |-> i + 1,
     message |-> IF i % 3 = 0 THEN "no-unused-vars" ELSE "semi"]

FindingCounts == (0..SmallCount) \cup ((AnnotationLimit - 1)..(AnnotationLimit + OverLimit))

LintResults ==
    {[isSuccess |-> s,
      error |-> [i \in 1..ne |-> Finding("error", i)],
      warning |-> [i \in 1..nw |-> Finding("warning", i)]] :
        s \in BOOLEAN, ne \in FindingCounts, nw \in FindingCounts}

LinterNames == {"eslint", "prettier"}

\* api.js:35-41
ToAnnotation(level, finding) ==
    [path |-> finding.path,
     start_line |-> finding.firstLine,
     end_line |-> finding.lastLine,
     annotation_level |-> IF level = "warning" THEN "warning" ELSE "failure",
     message |-> finding.message]

MapAnnotations(level, findings) ==
    [i \in 1..Len(findings) |-> ToAnnotation(level, findings[i])]

\* api.js:31-43: for (const level of ["error", "warning"]) annotations = [...]
BuildAnnotations(lr) ==
    MapAnnotations(Levels[1], lr.error) \o MapAnnotations(Levels[2], lr.warning)

\* mutant: the slice keeps one entry too many
TruncateOffByOne(anns) ==
    IF Len(anns) > AnnotationLimit THEN SubSeq(anns, 1, AnnotationLimit + 1) ELSE anns

\* api.js:46-51: annotations.slice(0, 50) when there are more than 50
TruncateAnnotations(anns) ==
    IF Len(anns) > AnnotationLimit THEN SubSeq(anns, 1, AnnotationLimit) ELSE anns

\* mutant: the neutral branch is tested before isSuccess
ConclusionNeutralFirst(lr, anns, neutral) ==
    IF Len(anns) > 0 /\ neutral
    THEN "neutral"
    ELSE IF lr.isSuccess THEN "success" ELSE "failure"

\* mutant: the neutral branch looks at the warnings only, not at the annotations
ConclusionWarningsOnly(lr, anns, neutral) ==
    IF lr.isSuccess
    THEN IF Len(lr.warning) > 0 /\ neutral THEN "neutral" ELSE "success"
    ELSE "failure"

\* api.js:53-62
Conclusion(lr, anns, neutral) ==
    IF lr.isSuccess
    THEN IF Len(anns) > 0 /\ neutral THEN "neutral" ELSE "success"
    ELSE "failure"

\* api.js:29: checkSuiteId = null, the default replaces undefined only
DefaultSuiteId(arg) == IF arg = Undefined THEN Null ELSE arg

\* mutant: the id is tested for truthiness, not against null
BuildBodyTruthy(name, conclusion, anns, checkSuiteId) ==
    LET base == [name |-> name,
                 head_sha |-> "sha",
                 conclusion |-> conclusion,
                 output |-> [title |-> "Summary",
                             summary |-> <<name, " found ", "summary">>,
                             annotations |-> anns]]
    IN  IF Truthy(checkSuiteId)
        THEN base @@ [check_suite_id |-> checkSuiteId]
        ELSE base

\* api.js:64-76
BuildBody(name, conclusion, anns, checkSuiteId) ==
    LET base == [name |-> name,
                 head_sha |-> "sha",
                 conclusion |-> conclusion,
                 output |-> [title |-> "Summary",
                             summary |-> <<name, " found ", "summary">>,
                             annotations |-> anns]]
    IN  IF checkSuiteId # Null
        THEN base @@ [check_suite_id |-> checkSuiteId]
        ELSE base

NoBody == [none |-> TRUE]
NoError == [t |-> "none", v |-> <<>>]

\* what request() rejects with (utils/request.js): a status >= 400 carries the
\* response text in err.data, a connection error carries none
ErrorDatas ==
    {[parses |-> TRUE, message |-> m, documentation_url |-> d] :
        m \in BOOLEAN, d \in BOOLEAN}
    \cup {[parses |-> FALSE, message |-> FALSE, documentation_url |-> FALSE]}

NoData == [parses |-> FALSE, message |-> FALSE, documentation_url |-> FALSE]

\* hasData: err.data is a non-empty string; requestId: the response carried
\* an x-github-request-id header
TransportErrors ==
    {[message |-> "Received status code", hasData |-> TRUE, data |-> d,
      requestId |-> r] : d \in ErrorDatas, r \in BOOLEAN}
    \cup {[message |-> "Received status code", hasData |-> FALSE, data |-> NoData,
           requestId |-> r] : r \in BOOLEAN}
    \cup {[message |-> "connect ECONNREFUSED", hasData |-> FALSE, data |-> NoData,
           requestId |-> FALSE]}

\* no POST has rejected
NoTransportError ==
    [message |-> "", hasData |-> FALSE, data |-> NoData, requestId |-> FALSE]

\* mutant: the documentation_url of the body is not appended
ErrorMessageWithoutDocumentationUrl(err) ==
    <<err.message>>
    \o (IF err.hasData /\ err.data.parses /\ err.data.message
        THEN <<". ", "data.message">> ELSE <<>>)

\* api.js:94-107: the message logged and rethrown
ErrorMessage(err) ==
    <<err.message>>
    \o (IF err.hasData /\ err.data.parses /\ err.data.message
        THEN <<". ", "data.message">> ELSE <<>>)
    \o (IF err.hasData /\ err.data.parses /\ err.data.documentation_url
        THEN <<" ", "data.documentation_url">> ELSE <<>>)


\* api.js:31-43 with lintResult null: lintResult[level] throws a TypeError
\* before the try block is entered
CreateCheckTypeError ==
    /\ UNCHANGED <<heurVars, detVars, sanVars, matchVars, reqVars>>
    /\ pcCheck = "start"
    /\ lintResult = Null
    /\ pcCheck' = "rejected"
    /\ thrown' = [t |-> "TypeError", v |-> <<"Cannot read properties of null">>]
    /\ UNCHANGED <<linterName, lintResult, neutralCheckOnWarning, suiteIdArg, body,
                   posts, infoLog, errorLog, postError>>

\* api.js:31-91: build the body and issue the POST
CreateCheckPost ==
    /\ UNCHANGED <<heurVars, detVars, sanVars, matchVars, reqVars>>
    /\ pcCheck = "start"
    /\ lintResult # Null
    /\ LET all == BuildAnnotations(lintResult)
           annotations == TruncateAnnotations(all)
           conclusion == Conclusion(lintResult, annotations, neutralCheckOnWarning)
           b == BuildBody(linterName, conclusion, annotations, DefaultSuiteId(suiteIdArg))
       IN  /\ body' = b
           /\ posts' = Append(posts, b)
           /\ infoLog' = infoLog
                         \o (IF Len(all) > AnnotationLimit THEN <<"truncated">> ELSE <<>>)
                         \o <<"creating">>
    /\ pcCheck' = "post"
    /\ UNCHANGED <<linterName, lintResult, neutralCheckOnWarning, suiteIdArg,
                   errorLog, thrown, postError>>

\* api.js:92: the POST resolved
CreateCheckResolved ==
    /\ UNCHANGED <<heurVars, detVars, sanVars, matchVars, reqVars>>
    /\ pcCheck = "post"
    /\ pcCheck' = "done"
    /\ infoLog' = Append(infoLog, "created")
    /\ UNCHANGED <<linterName, lintResult, neutralCheckOnWarning, suiteIdArg, body,
                   posts, errorLog, thrown, postError>>

\* mutant: a rejected POST is tried again
CreateCheckRetried ==
    /\ UNCHANGED <<heurVars, detVars, sanVars, matchVars, reqVars>>
    /\ pcCheck = "post"
    /\ \E err \in TransportErrors :
        /\ postError' = err
        /\ errorLog' = Append(errorLog, ErrorMessage(err))
    /\ pcCheck' = "start"
    /\ UNCHANGED <<linterName, lintResult, neutralCheckOnWarning, suiteIdArg, body,
                   posts, infoLog, thrown>>

\* api.js:93-111: the POST rejected
CreateCheckRejected ==
    /\ UNCHANGED <<heurVars, detVars, sanVars, matchVars, reqVars>>
    /\ pcCheck = "post"
    /\ \E err \in TransportErrors :
        LET errorMessage == ErrorMessage(err)
        IN  /\ postError' = err
            /\ errorLog' = Append(errorLog, errorMessage)
            /\ thrown' = [t |-> "Error",
                          v |-> <<"Error trying to create GitHub check for ",
                                  linterName, ": ">> \o errorMessage]
    /\ pcCheck' = "rejected"
    /\ UNCHANGED <<linterName, lintResult, neutralCheckOnWarning, suiteIdArg, body,
                   posts, infoLog>>

NextPublish ==
    \/ CreateCheckTypeError
    \/ CreateCheckPost
    \/ CreateCheckResolved
    \/ CreateCheckRejected

(***************************************************************************)
(* Strings whose text matters: token sequences, so that String.includes    *)
(* is a search and not an equality                                         *)
(***************************************************************************)
StringText(s) ==
    CASE s.v = 1 -> <<"https:", "/", "github.com", "/", "acme", "/", "actions", "/",
                      "runs", "/", "123", "/", "job", "/", "7">>
      [] s.v = 2 -> <<"https:", "/", "github.com", "/", "acme", "/", "actions", "/",
                      "runs", "/", "1234", "/", "job", "/", "7">>
      [] s.v = 3 -> <<"https:", "/", "github.com", "/", "acme", "/", "actions", "/",
                      "runs", "/", "123">>
      [] s.v = 5 -> <<"123">>
      [] s.v = 6 -> <<"lint">>
      [] s.v = 7 -> <<"abc123">>
      [] s.v = 8 -> <<"build">>
      [] s.v = 9 -> <<"987">>
      [] s.v = 10 -> <<"def456">>
      [] s.v = 11 -> <<"1234">>
      [] OTHER -> <<>>

RunUrl == Str(1)
OtherRunUrl == Str(2)
RunUrlNoSlash == Str(3)
RunId123 == Str(5)
JobLint == Str(6)
ShaAbc123 == Str(7)
JobBuild == Str(8)
Text987 == Str(9)
ShaDef456 == Str(10)
RunId1234 == Str(11)

\* String.prototype.includes
Includes(hay, needle) ==
    \E i \in 1..(Len(hay) - Len(needle) + 1) :
        SubSeq(hay, i, i + Len(needle) - 1) = needle

\* a || b
Or(a, b) == IF Truthy(a) THEN a ELSE b

(***************************************************************************)
(* Check runs and the match rule                                           *)
(***************************************************************************)
\* a check run of a response: hasApp/slug is check_run.app.slug, suite is
\* check_run.check_suite.id (Undefined when check_suite is missing)
CheckRun(slug, details, html, suite) ==
    [isNull |-> FALSE, hasApp |-> slug # "", slug |-> slug,
     details_url |-> details, html_url |-> html, suite |-> suite]

\* mutant: html_url is not looked at
CheckRunMatchesDetailsOnly(runId, checkRun) ==
    LET appSlug == IF ~checkRun.isNull /\ checkRun.hasApp THEN checkRun.slug ELSE ""
        detailsUrl == IF checkRun.isNull
                      THEN Str(0)
                      ELSE Or(checkRun.details_url, Str(0))
    IN  /\ appSlug = "github-actions"
        /\ detailsUrl.t = "string"
        /\ Includes(StringText(detailsUrl),
                    <<"/", "actions", "/", "runs", "/">> \o StringText(runId) \o <<"/">>)

\* api.js:125-131: the predicate of checkRuns.some
CheckRunMatches(runId, checkRun) ==
    LET appSlug == IF ~checkRun.isNull /\ checkRun.hasApp THEN checkRun.slug ELSE ""
        detailsUrl == IF checkRun.isNull
                      THEN Str(0)
                      ELSE Or(Or(checkRun.details_url, checkRun.html_url), Str(0))
    IN  /\ appSlug = "github-actions"
        /\ detailsUrl.t = "string"
        /\ Includes(StringText(detailsUrl),
                    <<"/", "actions", "/", "runs", "/">> \o StringText(runId) \o <<"/">>)

\* api.js:119-133; checkRuns is [isArray, items]
hasCheckRunForWorkflowRun(runId, checkRuns) ==
    IF ~checkRuns.isArray
    THEN FALSE
    ELSE \E i \in 1..Len(checkRuns.items) : CheckRunMatches(runId, checkRuns.items[i])

\* api.js:145-158: the predicate of checkRuns.find
CheckRunMatchesWithSuite(runId, checkRun) ==
    /\ CheckRunMatches(runId, checkRun)
    /\ checkRun.suite.t \in {"number", "number-fraction"}

\* api.js:140-161
getSuiteIdForWorkflowRun(runId, checkRuns) ==
    IF ~checkRuns.isArray
    THEN Null
    ELSE LET hits == {i \in 1..Len(checkRuns.items) :
                          CheckRunMatchesWithSuite(runId, checkRuns.items[i])}
         IN  IF hits = {}
             THEN Null
             ELSE checkRuns.items[CHOOSE i \in hits : \A j \in hits : i <= j].suite

(***************************************************************************)
(* Responses of the platform, as the resolvers read them                   *)
(***************************************************************************)
SuiteNumbers == {Num(i) : i \in 1..MaxSuiteId}

\* a field that should hold a suite id: missing, a string, or a number, which
\* may be 0
IdVals == {Undefined, Text987, Num(0)} \cup SuiteNumbers

\* check runs of the current run (with any suite field), of another run, and
\* of another app
ResponseCheckRuns ==
    {CheckRun("github-actions", RunUrl, Undefined, suite) :
        suite \in {Undefined} \cup SuiteNumbers}
    \cup {CheckRun("github-actions", OtherRunUrl, Undefined, Num(1)),
          CheckRun("dependabot", RunUrl, Undefined, Num(1))}

SeqsUpTo(S, n) == UNION {[1..k -> S] : k \in 0..n}

\* shape "rejected": the request failed; "no-data": the response has no data
\* (reading a field of it throws a TypeError); "data": check_runs as given
CheckRunsResponses ==
    {[shape |-> "rejected", check_runs |-> [isArray |-> FALSE, items |-> <<>>]],
     [shape |-> "no-data", check_runs |-> [isArray |-> FALSE, items |-> <<>>]],
     [shape |-> "data", check_runs |-> [isArray |-> FALSE, items |-> <<>>]]}
    \cup {[shape |-> "data", check_runs |-> [isArray |-> TRUE, items |-> l]] :
              l \in SeqsUpTo(ResponseCheckRuns, MaxCheckRuns)}

\* GET actions/runs/{runId}: data.check_suite_id
RunResponses ==
    {[shape |-> "rejected", check_suite_id |-> Undefined],
     [shape |-> "no-data", check_suite_id |-> Undefined]}
    \cup {[shape |-> "data", check_suite_id |-> id] : id \in IdVals}

\* GET of one check run: data.check_suite.id and data.head_sha
CheckRunResponses ==
    {[shape |-> "rejected", suite |-> Undefined, head_sha |-> Undefined],
     [shape |-> "no-data", suite |-> Undefined, head_sha |-> Undefined]}
    \cup {[shape |-> "data", suite |-> id, head_sha |-> h] :
              id \in IdVals, h \in {Undefined, ShaAbc123, ShaDef456}}

\* a job of GET actions/runs/{runId}/jobs
Job(name, url) == [isNull |-> FALSE, name |-> name, check_run_url |-> url]
NullJob == [isNull |-> TRUE, name |-> Undefined, check_run_url |-> Undefined]
ResponseJobs ==
    {NullJob} \cup {Job(n, u) : n \in {JobLint, JobBuild}, u \in {Undefined, RunUrl}}

JobsResponses ==
    {[shape |-> "rejected", jobs |-> [isArray |-> FALSE, items |-> <<>>]],
     [shape |-> "no-data", jobs |-> [isArray |-> FALSE, items |-> <<>>]],
     [shape |-> "data", jobs |-> [isArray |-> FALSE, items |-> <<>>]]}
    \cup {[shape |-> "data", jobs |-> [isArray |-> TRUE, items |-> l]] :
              l \in SeqsUpTo(ResponseJobs, MaxCheckRuns)}

(***************************************************************************)
(* getCurrentRunCheckSuiteId, heuristic generation (api.js:303-495)        *)
(***************************************************************************)
\* "" stands for a mode that is unset or falsy
Modes == {"", "auto", "none", "NONE"}

\* String.prototype.toLowerCase on the modes
ToLowerCase(m) == IF m = "NONE" THEN "none" ELSE m

RetriesVals == {NonInteger, Num(-1)} \cup {Num(i) : i \in 0..MaxRetries}
DelayVals == {NonInteger, Num(0), Num(1500)}

\* the spelling of the mode and a zero delay do not steer the loop: they vary
\* in the invocations that make one attempt; the invocations that make more
\* have mode "auto" and a delay of 1500 or one that is not an integer
HeuristicOptions ==
    {o \in [runId : {Undefined, Str(0), RunId123},
            mode : Modes,
            jobNameHint : {Str(0), JobLint},
            headSha : {Null, ShaAbc123},
            retries : RetriesVals,
            delayMs : DelayVals] :
        (o.runId = RunId123 /\ o.retries.t = "number" /\ o.retries.v >= 2) =>
            (o.mode = "auto" /\ o.delayMs \in {NonInteger, Num(1500)})}

\* api.js:314
NormalizedMode(o) == ToLowerCase(IF o.mode = "" THEN "auto" ELSE o.mode)
\* api.js:315
Attempts(o) == IF IsInteger(o.retries) THEN Max(o.retries.v, 1) ELSE 1
\* mutant: a delay that is not an integer falls back to the default delay
WaitDelayDefault(o) == IF IsInteger(o.delayMs) THEN Max(o.delayMs.v, 0) ELSE 1500

\* api.js:316
WaitDelay(o) == IF IsInteger(o.delayMs) THEN Max(o.delayMs.v, 0) ELSE 0

\* trace events.  A call records the request (path, arg) and the suite id the
\* code read from its response (got: Null when it read none); a call for a
\* list of check runs also records whether the list held a check run of the
\* current run (matched)
Call(path, arg, got) ==
    [e |-> "call", path |-> path, arg |-> arg, got |-> got, attempt |-> attempt,
     matched |-> FALSE]
CheckRunsCall(path, arg, got, r) ==
    [Call(path, arg, got) EXCEPT
        !.matched = r.shape = "data" /\ hasCheckRunForWorkflowRun(opts.runId, r.check_runs)]
SleepEvent(ms) ==
    [e |-> "sleep", path |-> "", arg |-> Num(ms), got |-> Null, attempt |-> attempt,
     matched |-> FALSE]

\* core.warning messages: the fragments of the template literal, and the
\* suite id interpolated at "{id}"
Warning(text, id) == [text |-> text, id |-> id]

\* api.js:327
WarnMissingRunId ==
    Warning(<<"GITHUB_RUN_ID is missing. ",
              "Creating check runs without check_suite_id.">>, Null)
\* api.js:476-478
WarnCandidate(id) ==
    Warning(<<"Could not verify check suite", " for workflow run ", "{runId}", "; ",
              "using run candidate suite ", "{id}", " as fallback.">>, id)
\* api.js:487-489
WarnUnresolved ==
    Warning(<<"Could not resolve check suite", " for workflow run ", "{runId}",
              ". Falling back to creating check runs without check_suite_id.">>, Null)

\* return value from the resolver
Return(value, warns, tr, cand) ==
    /\ pc' = "done"
    /\ result' = value
    /\ warnings' = warnings \o warns
    /\ trace' = tr
    /\ runCandidateSuiteId' = cand
    /\ UNCHANGED <<opts, attempt>>

\* move to the next suspension point
Goto(target, tr, cand) ==
    /\ pc' = target
    /\ trace' = tr
    /\ runCandidateSuiteId' = cand
    /\ UNCHANGED <<opts, attempt, result, warnings>>

\* mutant: the remembered candidate is not used
ExhaustedIgnoresCandidate(tr, cand) == Return(Null, <<WarnUnresolved>>, tr, cand)

\* mutant: the failure is not logged
ExhaustedNoWarning(tr, cand) ==
    IF cand # Null
    THEN Return(cand, <<WarnCandidate(cand)>>, tr, cand)
    ELSE Return(Null, <<>>, tr, cand)

\* mutant: the candidate is returned under the generic warning
ExhaustedGenericWarning(tr, cand) ==
    IF cand # Null
    THEN Return(cand, <<WarnUnresolved>>, tr, cand)
    ELSE Return(Null, <<WarnUnresolved>>, tr, cand)

\* mutant: after the last attempt the resolver waits for a promise that
\* nothing settles
ExhaustedNeverReturns(tr, cand) == Goto("waiting", tr, cand)

\* api.js:475-494: the loop is over
Exhausted(tr, cand) ==
    IF cand # Null
    THEN Return(cand, <<WarnCandidate(cand)>>, tr, cand)
    ELSE Return(Null, <<WarnUnresolved>>, tr, cand)

\* mutant: the loop runs once more
EndOfAttemptOffByOne(tr, cand) ==
    IF attempt <= Attempts(opts)
    THEN Goto("sleep", Append(tr, SleepEvent(WaitDelay(opts))), cand)
    ELSE Exhausted(tr, cand)

\* api.js:463-473: the end of the loop body
EndOfAttempt(tr, cand) ==
    IF attempt < Attempts(opts)
    THEN Goto("sleep", Append(tr, SleepEvent(WaitDelay(opts))), cand)
    ELSE Exhausted(tr, cand)

\* mutant: the commit fallback runs without a head sha too
AfterRunLookupAlwaysFallback(tr, cand) == Goto("commit_fallback", tr, cand)

\* api.js:437: the commit fallback runs only with a head sha
AfterRunLookup(tr, cand) ==
    IF Truthy(opts.headSha)
    THEN Goto("commit_fallback", tr, cand)
    ELSE EndOfAttempt(tr, cand)

\* mutant: a failed job-hint lookup ends the attempt
CatchJobHintErrorEndsAttempt(tr, cand) == EndOfAttempt(tr, cand)

\* api.js:373-380: catch (jobHintError)
CatchJobHintError(tr, cand) == Goto("run_lookup", tr, cand)
\* mutant: the run lookup is not wrapped in try/catch
RethrowRunError(tr, cand) == Goto("thrown", tr, cand)

\* mutant: the candidate is forgotten when the run lookup or the verification
\* fetch fails
CatchRunErrorForgets(tr, cand) == AfterRunLookup(tr, Null)

\* api.js:428-435: catch (runError)
CatchRunError(tr, cand) == AfterRunLookup(tr, cand)
\* api.js:452-460: catch (fallbackError)
CatchFallbackError(tr, cand) == EndOfAttempt(tr, cand)

\* api.js:357: the first await of an attempt
FirstStep(o) == IF Truthy(o.jobNameHint) THEN "hint_jobs" ELSE "run_lookup"

\* api.js:318
ResolutionDisabled(o) == NormalizedMode(o) = "none"
\* mutant: the run id is not checked
RunIdNotChecked(o) == FALSE

\* api.js:326
RunIdMissing(o) == ~Truthy(o.runId)

\* api.js:303-349: entry, up to the first await
ResolveStart ==
    /\ UNCHANGED <<publishVars, detVars, sanVars, matchVars, reqVars>>
    /\ pc = "start"
    /\ IF ResolutionDisabled(opts)
       THEN /\ pc' = "done"
            /\ result' = Null
            /\ UNCHANGED <<warnings, attempt>>
       ELSE IF RunIdMissing(opts)
       THEN /\ pc' = "done"
            /\ result' = Null
            /\ warnings' = Append(warnings, WarnMissingRunId)
            /\ UNCHANGED attempt
       ELSE /\ pc' = FirstStep(opts)
            /\ attempt' = 1
            /\ UNCHANGED <<result, warnings>>
    /\ UNCHANGED <<opts, runCandidateSuiteId, trace, allRejected>>

\* api.js:251: jobs.find((job) => job && job.name === jobNameHint)
MatchingJobs(jobs, hint) ==
    {i \in 1..Len(jobs) : ~jobs[i].isNull /\ jobs[i].name = hint}

\* api.js:242-270: getSuiteIdForJobNameHint up to its second await
HintJobs ==
    /\ UNCHANGED <<publishVars, detVars, sanVars, matchVars, reqVars>>
    /\ pc = "hint_jobs"
    /\ \E r \in JobsResponses :
        /\ allRejected' = (allRejected /\ r.shape = "rejected")
        /\ LET tr == Append(trace, Call("actions/runs/{runId}/jobs", opts.runId, Null))
               jobs == IF r.jobs.isArray THEN r.jobs.items ELSE <<>>
               hits == MatchingJobs(jobs, opts.jobNameHint)
               matchingJob == jobs[CHOOSE i \in hits : \A j \in hits : i <= j]
           IN  IF r.shape \in {"rejected", "no-data"}
               THEN CatchJobHintError(tr, runCandidateSuiteId)
               ELSE IF hits = {}
               THEN Goto("run_lookup", tr, runCandidateSuiteId)
               ELSE IF ~Truthy(matchingJob.check_run_url)
               THEN Goto("run_lookup", tr, runCandidateSuiteId)
               ELSE Goto("hint_check_run", tr, runCandidateSuiteId)

\* mutant: the suite id of the hinted job is not returned, the attempt goes on
HintCheckRunNoReturn ==
    /\ UNCHANGED <<publishVars, detVars, sanVars, matchVars, reqVars>>
    /\ pc = "hint_check_run"
    /\ \E r \in CheckRunResponses :
        /\ allRejected' = (allRejected /\ r.shape = "rejected")
        /\ LET jobSuiteId == IF r.shape = "data" /\ IsNumber(r.suite) THEN r.suite ELSE Null
               tr == Append(trace, Call("{check_run_url}", Null, jobSuiteId))
           IN  IF r.shape = "rejected"
               THEN CatchJobHintError(tr, runCandidateSuiteId)
               ELSE Goto("run_lookup", tr, runCandidateSuiteId)

\* api.js:272-288 and 360-372: the job's check run
HintCheckRun ==
    /\ UNCHANGED <<publishVars, detVars, sanVars, matchVars, reqVars>>
    /\ pc = "hint_check_run"
    /\ \E r \in CheckRunResponses :
        /\ allRejected' = (allRejected /\ r.shape = "rejected")
        /\ LET jobSuiteId == IF r.shape = "data" /\ IsNumber(r.suite) THEN r.suite ELSE Null
               tr == Append(trace, Call("{check_run_url}", Null, jobSuiteId))
           IN  IF r.shape = "rejected"
               THEN CatchJobHintError(tr, runCandidateSuiteId)
               ELSE IF jobSuiteId # Null
               THEN Return(jobSuiteId, <<>>, tr, runCandidateSuiteId)
               ELSE Goto("run_lookup", tr, runCandidateSuiteId)

\* api.js:383-403: the run lookup
RunLookup ==
    /\ UNCHANGED <<publishVars, detVars, sanVars, matchVars, reqVars>>
    /\ pc = "run_lookup"
    /\ \E r \in RunResponses :
        /\ allRejected' = (allRejected /\ r.shape = "rejected")
        /\ LET checkSuiteId == IF r.shape = "data" /\ IsNumber(r.check_suite_id)
                               THEN r.check_suite_id ELSE Null
               tr == Append(trace, Call("actions/runs/{runId}", opts.runId,
                                        checkSuiteId))
               cand == IF checkSuiteId # Null THEN checkSuiteId ELSE runCandidateSuiteId
           IN  IF r.shape = "rejected"
               THEN CatchRunError(tr, runCandidateSuiteId)
               ELSE IF checkSuiteId # Null
               THEN Goto("verify", tr, cand)
               ELSE AfterRunLookup(tr, cand)

\* mutant: a verified candidate is not returned, the attempt goes on
VerifyNoReturn ==
    /\ UNCHANGED <<publishVars, detVars, sanVars, matchVars, reqVars>>
    /\ pc = "verify"
    /\ \E r \in CheckRunsResponses :
        /\ allRejected' = (allRejected /\ r.shape = "rejected")
        /\ LET checkSuiteId == runCandidateSuiteId
               hasRunMatch == /\ r.shape = "data"
                              /\ hasCheckRunForWorkflowRun(opts.runId, r.check_runs)
               tr == Append(trace, CheckRunsCall("check-suites/{id}/check-runs",
                                                 checkSuiteId,
                                                 IF hasRunMatch THEN checkSuiteId ELSE Null,
                                                 r))
           IN  IF r.shape \in {"rejected", "no-data"}
               THEN CatchRunError(tr, runCandidateSuiteId)
               ELSE AfterRunLookup(tr, runCandidateSuiteId)

\* api.js:404-427: verification of the candidate
Verify ==
    /\ UNCHANGED <<publishVars, detVars, sanVars, matchVars, reqVars>>
    /\ pc = "verify"
    /\ \E r \in CheckRunsResponses :
        /\ allRejected' = (allRejected /\ r.shape = "rejected")
        /\ LET checkSuiteId == runCandidateSuiteId
               hasRunMatch == /\ r.shape = "data"
                              /\ hasCheckRunForWorkflowRun(opts.runId, r.check_runs)
               tr == Append(trace, CheckRunsCall("check-suites/{id}/check-runs",
                                                 checkSuiteId,
                                                 IF hasRunMatch THEN checkSuiteId ELSE Null,
                                                 r))
           IN  IF r.shape \in {"rejected", "no-data"}
               THEN CatchRunError(tr, runCandidateSuiteId)
               ELSE IF hasRunMatch
               THEN Return(checkSuiteId, <<>>, tr, runCandidateSuiteId)
               ELSE AfterRunLookup(tr, runCandidateSuiteId)

\* api.js:437-461: the commit fallback
CommitFallback ==
    /\ UNCHANGED <<publishVars, detVars, sanVars, matchVars, reqVars>>
    /\ pc = "commit_fallback"
    /\ \E r \in CheckRunsResponses :
        /\ allRejected' = (allRejected /\ r.shape = "rejected")
        /\ LET fallbackSuiteId == IF r.shape = "data"
                                  THEN getSuiteIdForWorkflowRun(opts.runId, r.check_runs)
                                  ELSE Null
               tr == Append(trace, CheckRunsCall("commits/{sha}/check-runs", opts.headSha,
                                                 fallbackSuiteId, r))
           IN  IF r.shape \in {"rejected", "no-data"}
               THEN CatchFallbackError(tr, runCandidateSuiteId)
               ELSE IF fallbackSuiteId # Null
               THEN Return(fallbackSuiteId, <<>>, tr, runCandidateSuiteId)
               ELSE EndOfAttempt(tr, runCandidateSuiteId)

\* api.js:168-175, 349, 471: the sleep is over and the next attempt starts
SleepDone ==
    /\ UNCHANGED <<publishVars, detVars, sanVars, matchVars, reqVars>>
    /\ pc = "sleep"
    /\ attempt' = attempt + 1
    /\ pc' = FirstStep(opts)
    /\ UNCHANGED <<opts, runCandidateSuiteId, result, warnings, trace, allRejected>>

NextHeuristic ==
    \/ ResolveStart
    \/ HintJobs
    \/ HintCheckRun
    \/ RunLookup
    \/ Verify
    \/ CommitFallback
    \/ SleepDone

(***************************************************************************)
(* getCurrentRunCheckSuiteId, deterministic generation (api.js:659-709)    *)
(***************************************************************************)
JobCheckRunIds ==
    {Undefined, Null, Text987, NonInteger, Num(-1), Num(0)}
    \cup {Num(i) : i \in 1..MaxJobCheckRunId}

DeterministicOptions == [jobCheckRunId : JobCheckRunIds, debug : BOOLEAN]

\* api.js:660: jobCheckRunId = null, the default replaces undefined only
DefaultJobCheckRunId(o) == IF o.jobCheckRunId = Undefined THEN Null ELSE o.jobCheckRunId

\* mutant: only negative ids are refused
InvalidJobCheckRunIdNegativeOnly(id) == ~IsInteger(id) \/ id.v < 0

\* api.js:662: !Number.isInteger(jobCheckRunId) || jobCheckRunId <= 0
InvalidJobCheckRunId(id) == ~IsInteger(id) \/ id.v <= 0

\* api.js:618-623: logSuiteDebug
LogSuiteDebug(log, debug, event) == IF debug THEN Append(log, event) ELSE log

\* api.js:692-694 and 704-706
WarnDeterministic ==
    Warning(<<"Could not resolve check suite", " from job.check_run_id; ",
              "creating check runs without check_suite_id.">>, Null)

NoResponse == [shape |-> "none", suite |-> Undefined, head_sha |-> Undefined]


\* api.js:659-676: entry, up to the await of getApi
DetResolveStart ==
    /\ UNCHANGED <<publishVars, heurVars, sanVars, matchVars, reqVars>>
    /\ pcDet = "start"
    /\ LET id == DefaultJobCheckRunId(detOpts)
       IN  IF InvalidJobCheckRunId(id)
           THEN /\ pcDet' = "done"
                /\ detResult' = Null
                /\ detDebugLog' = LogSuiteDebug(detDebugLog, detOpts.debug,
                                                "suite-resolution-skipped")
                /\ UNCHANGED detCalls
           ELSE /\ pcDet' = "fetch"
                /\ detCalls' = Append(detCalls, [path |-> "check-runs/{id}", arg |-> id])
                /\ detDebugLog' = LogSuiteDebug(detDebugLog, detOpts.debug,
                                                "suite-resolution-start")
                /\ UNCHANGED detResult
    /\ UNCHANGED <<detOpts, detResponse, detWarnings>>

\* api.js:677-683
DetCheckSuiteId(r) == IF r.shape = "data" /\ IsNumber(r.suite) THEN r.suite ELSE Null

\* api.js:677-697: what the resolver returns once the fetch resolved
DetReturnValue(r) == DetCheckSuiteId(r)

\* mutant: the failure is not logged as a warning
DetCatchSilent(r) ==
    /\ detResult' = Null
    /\ detWarnings' = detWarnings
    /\ detDebugLog' = LogSuiteDebug(detDebugLog, detOpts.debug, "suite-resolution-error")
    /\ pcDet' = "done"

\* api.js:698-708: catch (err)
DetCatch(r) ==
    /\ detResult' = Null
    /\ detWarnings' = Append(detWarnings, WarnDeterministic)
    /\ detDebugLog' = LogSuiteDebug(detDebugLog, detOpts.debug, "suite-resolution-error")
    /\ pcDet' = "done"

\* api.js:676-708: the fetch settled
DetFetchSettled ==
    /\ UNCHANGED <<publishVars, heurVars, sanVars, matchVars, reqVars>>
    /\ pcDet = "fetch"
    /\ \E r \in CheckRunResponses :
        /\ detResponse' = r
        /\ IF r.shape = "rejected"
           THEN DetCatch(r)
           ELSE /\ detResult' = DetReturnValue(r)
                /\ detWarnings' = IF DetCheckSuiteId(r) = Null
                                  THEN Append(detWarnings, WarnDeterministic)
                                  ELSE detWarnings
                /\ detDebugLog' = LogSuiteDebug(detDebugLog, detOpts.debug,
                                                "suite-resolution-result")
                /\ pcDet' = "done"
    /\ UNCHANGED <<detOpts, detCalls>>

NextDeterministic ==
    \/ DetResolveStart
    \/ DetFetchSettled

(***************************************************************************)
(* sanitizeHeaders (utils/request.js:3-23).  Header names are sequences of *)
(* characters, so that toLowerCase and includes work on the text.          *)
(***************************************************************************)
\* at most this many headers in a header map
MaxHeaders == 2

UpperChars == <<"A", "B", "C", "D", "E", "F", "G", "H", "I", "J", "K", "L", "M",
                "N", "O", "P", "Q", "R", "S", "T", "U", "V", "W", "X", "Y", "Z">>
LowerChars == <<"a", "b", "c", "d", "e", "f", "g", "h", "i", "j", "k", "l", "m",
                "n", "o", "p", "q", "r", "s", "t", "u", "v", "w", "x", "y", "z">>

\* String.prototype.toLowerCase, one character
LowerChar(c) ==
    IF \E i \in 1..Len(UpperChars) : UpperChars[i] = c
    THEN LowerChars[CHOOSE i \in 1..Len(UpperChars) : UpperChars[i] = c]
    ELSE c

\* request.js:16: key.toLowerCase()
LowerKey(key) == [i \in 1..Len(key) |-> LowerChar(key[i])]

\* request.js:3
SENSITIVE_HEADER_KEYS ==
    <<<<"a", "u", "t", "h", "o", "r", "i", "z", "a", "t", "i", "o", "n">>,
      <<"t", "o", "k", "e", "n">>,
      <<"c", "o", "o", "k", "i", "e">>,
      <<"s", "e", "t", "-", "c", "o", "o", "k", "i", "e">>>>

\* "Authorization"
HdrAuthorization ==
    <<"A", "u", "t", "h", "o", "r", "i", "z", "a", "t", "i", "o", "n">>

\* "X-Foo"
HdrXFoo ==
    <<"X", "-", "F", "o", "o">>

\* "X-GitHub-Token"
HdrXGitHubToken ==
    <<"X", "-", "G", "i", "t", "H", "u", "b", "-", "T", "o", "k", "e", "n">>

\* "Set-Cookie"
HdrSetCookie ==
    <<"S", "e", "t", "-", "C", "o", "o", "k", "i", "e">>

\* "COOKIE"
HdrCOOKIE ==
    <<"C", "O", "O", "K", "I", "E">>

\* "Content-Type"
HdrContentType ==
    <<"C", "o", "n", "t", "e", "n", "t", "-", "T", "y", "p", "e">>

\* "X-Tok-En"
HdrXTokEn ==
    <<"X", "-", "T", "o", "k", "-", "E", "n">>

\* "proxy-authorization"
HdrProxyAuthorization ==
    <<"p", "r", "o", "x", "y", "-", "a", "u", "t", "h", "o", "r", "i", "z", "a", "t", "i", "o", "n">>

HeaderNames ==
    {HdrAuthorization, HdrXFoo, HdrXGitHubToken, HdrSetCookie,
     HdrCOOKIE, HdrContentType, HdrXTokEn, HdrProxyAuthorization}

\* header values: strings, and the marker itself as a value
HeaderValues == {"Bearer x", "bar", "[redacted]"}

\* an object is its entries in insertion order (Object.entries); the keys of
\* an object are distinct
Objects(n) ==
    {l \in SeqsUpTo([key : HeaderNames, value : HeaderValues], n) :
        \A i, j \in 1..Len(l) : l[i].key = l[j].key => i = j}

HeaderObject(entries) == [t |-> "object", entries |-> entries]
NoHeaders == [t |-> "undefined", entries |-> <<>>]

\* what sanitizeHeaders is called with: options.headers or res.headers, which
\* may be missing or not an object
HeaderInputs ==
    {NoHeaders, [t |-> "null", entries |-> <<>>], [t |-> "string", entries |-> <<>>]}
    \cup {HeaderObject(l) : l \in Objects(MaxHeaders)}

\* mutant: the header name is compared, not searched
IsSensitiveExact(key) ==
    \E k \in 1..Len(SENSITIVE_HEADER_KEYS) : LowerKey(key) = SENSITIVE_HEADER_KEYS[k]

\* request.js:16-19: isSensitive
IsSensitive(key) ==
    \E k \in 1..Len(SENSITIVE_HEADER_KEYS) :
        Includes(LowerKey(key), SENSITIVE_HEADER_KEYS[k])

\* request.js:10-23
sanitizeHeaders(headers) ==
    IF headers.t # "object"
    THEN headers
    ELSE HeaderObject([i \in 1..Len(headers.entries) |->
                          [key |-> headers.entries[i].key,
                           value |-> IF IsSensitive(headers.entries[i].key)
                                     THEN "[redacted]"
                                     ELSE headers.entries[i].value]])

\* request.js:10-23: one call of sanitizeHeaders
SanitizeHeaders ==
    /\ UNCHANGED <<publishVars, heurVars, detVars, matchVars, reqVars>>
    /\ pcSan = "start"
    /\ sanitized' = sanitizeHeaders(headersArg)
    /\ pcSan' = "done"
    /\ UNCHANGED headersArg

NextSanitize ==
    \/ SanitizeHeaders

(***************************************************************************)
(* The match rule applied to a list of check runs, by candidate            *)
(* verification (hasCheckRunForWorkflowRun) and by the commit fallback     *)
(* (getSuiteIdForWorkflowRun)                                              *)
(***************************************************************************)
\* lists of check runs have at most this many entries
MaxMatchRuns == 2

\* a null entry of check_runs
NullCheckRun ==
    [isNull |-> TRUE, hasApp |-> FALSE, slug |-> "", details_url |-> Undefined,
     html_url |-> Undefined, suite |-> Undefined]

\* check runs of run 123 by details_url with and without a numeric suite id
MatchWithSuite == CheckRun("github-actions", RunUrl, Undefined, Num(1))
MatchNoSuite == CheckRun("github-actions", RunUrl, Undefined, Undefined)
MatchTextSuite == CheckRun("github-actions", RunUrl, Undefined, Text987)
\* of run 123 by html_url
MatchByHtmlUrl == CheckRun("github-actions", Undefined, RunUrl, Num(2))
\* details_url of run 1234 comes before html_url of run 123
DetailsOfOtherRun == CheckRun("github-actions", OtherRunUrl, RunUrl, Num(1))
\* the run id ends the url, no slash follows
NoTrailingSlash == CheckRun("github-actions", RunUrlNoSlash, Undefined, Num(1))
\* another app, and no app
OtherApp == CheckRun("dependabot", RunUrl, Undefined, Num(1))
NoApp == CheckRun("", RunUrl, Undefined, Num(1))
\* details_url is a number
NumericDetailsUrl == CheckRun("github-actions", Num(1), RunUrl, Num(1))

MatchCheckRuns ==
    {MatchWithSuite, MatchNoSuite, MatchTextSuite, MatchByHtmlUrl, DetailsOfOtherRun,
     NoTrailingSlash, OtherApp, NoApp, NumericDetailsUrl, NullCheckRun}

NotAList == [isArray |-> FALSE, items |-> <<>>]

MatchInputs ==
    [runId : {RunId123, RunId1234},
     checkRuns : {NotAList} \cup {[isArray |-> TRUE, items |-> l] :
                                     l \in SeqsUpTo(MatchCheckRuns, MaxMatchRuns)}]

NoMatchInput == [runId |-> Undefined, checkRuns |-> NotAList]

\* api.js:406: the rule as candidate verification applies it
ApplyVerificationRule ==
    /\ UNCHANGED <<publishVars, heurVars, detVars, sanVars, reqVars>>
    /\ pcMatch = "start"
    /\ matchVerified = "pending"
    /\ matchVerified' = IF hasCheckRunForWorkflowRun(matchInput.runId, matchInput.checkRuns)
                        THEN "true"
                        ELSE "false"
    /\ UNCHANGED <<pcMatch, matchInput, matchFallback>>

\* api.js:440: the rule as the commit fallback applies it
ApplyFallbackRule ==
    /\ UNCHANGED <<publishVars, heurVars, detVars, sanVars, reqVars>>
    /\ pcMatch = "start"
    /\ matchFallback = Undefined
    /\ matchFallback' = getSuiteIdForWorkflowRun(matchInput.runId, matchInput.checkRuns)
    /\ UNCHANGED <<pcMatch, matchInput, matchVerified>>

NextMatch ==
    \/ ApplyVerificationRule
    \/ ApplyFallbackRule

(***************************************************************************)
(* request (utils/request.js): the promise, the events of the Node request *)
(* and of its response                                                     *)
(***************************************************************************)
\* request.js:62
ErrorStatus == 400

\* a URL https.request accepts, and one it throws on (GITHUB_API_URL unset)
ValidUrl == "https://api.github.com/repos/o/r/check-runs"
InvalidUrl == "undefined/repos/o/r/check-runs"
RequestUrls == {ValidUrl, InvalidUrl}

\* headers of a request and of a response
RequestHeaders ==
    {NoHeaders,
     HeaderObject(<<[key |-> HdrXFoo, value |-> "bar"]>>),
     HeaderObject(<<[key |-> HdrAuthorization, value |-> "Bearer x"],
                    [key |-> HdrContentType, value |-> "bar"]>>)}
ResponseHeaders ==
    {HeaderObject(<<>>),
     HeaderObject(<<[key |-> HdrContentType, value |-> "bar"]>>),
     HeaderObject(<<[key |-> HdrSetCookie, value |-> "Bearer x"],
                    [key |-> HdrXFoo, value |-> "bar"]>>)}

\* options: method "" stands for a missing method, body FALSE for no body
RequestOptions == [method : {"", "POST"}, headers : RequestHeaders, body : BOOLEAN]
RequestArgs == [url : RequestUrls, options : RequestOptions]
NoRequestArgs ==
    [url |-> "", options |-> [method |-> "", headers |-> NoHeaders, body |-> FALSE]]

\* res: its status code and headers are known when the response callback runs
StatusCodes == {200, ErrorStatus - 1, ErrorStatus, 422}
IncomingMessages == [statusCode : StatusCodes, headers : ResponseHeaders]
NoIncomingMessage == [statusCode |-> 0, headers |-> NoHeaders]

\* the text of a response body: JSON, text that JSON.parse throws on, or
\* nothing (JSON.parse("") throws too)
BodyTexts == {"{json}", "not json", ""}
ParsesAsJson(text) == text = "{json}"

\* an error object and the properties the code sets on it
NoRequestInfo == [url |-> "", method |-> "", headers |-> NoHeaders]
ErrorObject(message) ==
    [message |-> message, hasRequestInfo |-> FALSE, requestInfo |-> NoRequestInfo,
     hasStatusCode |-> FALSE, statusCode |-> 0,
     hasResponseHeaders |-> FALSE, responseHeaders |-> NoHeaders,
     hasResponse |-> FALSE, data |-> ""]
NoReason == ErrorObject("")

\* the promise: resolve and reject settle it once, later calls do nothing;
\* reason is the error of a rejection, calls counts resolve and reject calls
PendingPromise == [state |-> "pending", reason |-> NoReason, calls |-> 0]
Resolve(p) ==
    IF p.state = "pending"
    THEN [state |-> "fulfilled", reason |-> NoReason, calls |-> p.calls + 1]
    ELSE [p EXCEPT !.calls = p.calls + 1]
Reject(p, err) ==
    IF p.state = "pending"
    THEN [state |-> "rejected", reason |-> err, calls |-> p.calls + 1]
    ELSE [p EXCEPT !.calls = p.calls + 1]

\* mutant: the request headers are attached as they are
attachRequestContextRawHeaders(err, url, options, hasRes, res) ==
    LET withInfo == [err EXCEPT !.hasRequestInfo = TRUE,
                                !.requestInfo =
                                    [url |-> url,
                                     method |-> IF options.method = "" THEN "GET"
                                                ELSE options.method,
                                     headers |-> options.headers]]
    IN  IF hasRes
        THEN [withInfo EXCEPT !.hasStatusCode = TRUE,
                              !.statusCode = res.statusCode,
                              !.hasResponseHeaders = TRUE,
                              !.responseHeaders = sanitizeHeaders(res.headers)]
        ELSE withInfo

\* request.js:33-45
attachRequestContext(err, url, options, hasRes, res) ==
    LET withInfo == [err EXCEPT !.hasRequestInfo = TRUE,
                                !.requestInfo =
                                    [url |-> url,
                                     method |-> IF options.method = "" THEN "GET"
                                                ELSE options.method,
                                     headers |-> sanitizeHeaders(options.headers)]]
    IN  IF hasRes
        THEN [withInfo EXCEPT !.hasStatusCode = TRUE,
                              !.statusCode = res.statusCode,
                              !.hasResponseHeaders = TRUE,
                              !.responseHeaders = sanitizeHeaders(res.headers)]
        ELSE withInfo

\* request.js:54-82: the executor of the promise issues the request; an
\* exception thrown by https.request rejects the promise with that exception
RequestIssue ==
    /\ UNCHANGED <<publishVars, heurVars, detVars, sanVars, matchVars>>
    /\ pcReq = "start"
    /\ IF reqArgs.url = InvalidUrl
       THEN /\ promise' = Reject(promise, ErrorObject("Invalid URL"))
            /\ pcReq' = "threw"
            /\ UNCHANGED reqSent
       ELSE /\ reqSent' = IF reqArgs.options.body THEN "JSON.stringify(body)" ELSE "nothing"
            /\ pcReq' = "pending"
            /\ UNCHANGED promise
    /\ UNCHANGED <<reqArgs, reqResponse, data, uncaught>>

\* request.js:56-60: the response callback runs, body chunks follow
ResponseStart ==
    /\ UNCHANGED <<publishVars, heurVars, detVars, sanVars, matchVars>>
    /\ pcReq = "pending"
    /\ reqResponse' \in IncomingMessages
    /\ pcReq' = "receiving"
    /\ UNCHANGED <<reqArgs, reqSent, data, promise, uncaught>>

\* request.js:73-76: the request emits "error", before a response or while
\* its body is read
RequestError ==
    /\ UNCHANGED <<publishVars, heurVars, detVars, sanVars, matchVars>>
    /\ pcReq \in {"pending", "receiving"}
    /\ LET err == attachRequestContext(ErrorObject("connect ECONNREFUSED"), reqArgs.url,
                                       reqArgs.options, FALSE, NoIncomingMessage)
       IN  promise' = Reject(promise, err)
    /\ pcReq' = "failed"
    /\ UNCHANGED <<reqArgs, reqSent, reqResponse, data, uncaught>>

\* request.js:61-71: the handler of the response's "end" event; an exception
\* of JSON.parse leaves the handler, nothing settles the promise
ResponseEndHandler(text) ==
    IF reqResponse.statusCode >= ErrorStatus
    THEN LET err == [ErrorObject("Received status code")
                        EXCEPT !.hasResponse = TRUE, !.data = text]
         IN  /\ promise' = Reject(promise,
                                  attachRequestContext(err, reqArgs.url, reqArgs.options,
                                                       TRUE, reqResponse))
             /\ UNCHANGED uncaught
    ELSE IF ParsesAsJson(text)
         THEN /\ promise' = Resolve(promise)
              /\ UNCHANGED uncaught
         ELSE /\ uncaught' = TRUE
              /\ UNCHANGED promise

\* request.js:57-71: the response ended, its chunks made the body text
ResponseEnd ==
    /\ UNCHANGED <<publishVars, heurVars, detVars, sanVars, matchVars>>
    /\ pcReq = "receiving"
    /\ \E text \in BodyTexts :
        /\ data' = text
        /\ ResponseEndHandler(text)
    /\ pcReq' = "ended"
    /\ UNCHANGED <<reqArgs, reqSent, reqResponse>>

NextRequest ==
    \/ RequestIssue
    \/ ResponseStart
    \/ RequestError
    \/ ResponseEnd

(***************************************************************************)
(* Specifications: one program runs, the others stay idle                  *)
(***************************************************************************)



IdleOptions ==
    [runId |-> Undefined, mode |-> "", jobNameHint |-> Str(0), headSha |-> Null,
     retries |-> Num(1), delayMs |-> Num(0)]
IdleDetOptions == [jobCheckRunId |-> Undefined, debug |-> FALSE]

\* createCheck is called once
InitPublish ==
    /\ pcCheck = "start"
    /\ linterName \in LinterNames
    /\ lintResult \in LintResults \cup {Null}
    /\ neutralCheckOnWarning \in BOOLEAN
    /\ suiteIdArg \in {Undefined, Null, Num(0), Num(42)}
    /\ body = NoBody
    /\ posts = <<>>
    /\ infoLog = <<>>
    /\ errorLog = <<>>
    /\ thrown = NoError
    /\ postError = NoTransportError
    /\ pc = "idle"
    /\ opts = IdleOptions
    /\ attempt = 0
    /\ runCandidateSuiteId = Null
    /\ result = Undefined
    /\ warnings = <<>>
    /\ trace = <<>>
    /\ allRejected = TRUE
    /\ pcDet = "idle"
    /\ detOpts = IdleDetOptions
    /\ detResponse = NoResponse
    /\ detResult = Undefined
    /\ detWarnings = <<>>
    /\ detCalls = <<>>
    /\ detDebugLog = <<>>
    /\ pcSan = "idle"
    /\ headersArg = NoHeaders
    /\ sanitized = NoHeaders
    /\ pcMatch = "idle"
    /\ matchInput = NoMatchInput
    /\ matchVerified = "pending"
    /\ matchFallback = Undefined
    /\ pcReq = "idle"
    /\ reqArgs = NoRequestArgs
    /\ reqSent = ""
    /\ reqResponse = NoIncomingMessage
    /\ data = ""
    /\ promise = PendingPromise
    /\ uncaught = FALSE

\* the heuristic resolver is called once
InitHeuristic ==
    /\ pcCheck = "idle"
    /\ linterName = "eslint"
    /\ lintResult = Null
    /\ neutralCheckOnWarning = FALSE
    /\ suiteIdArg = Undefined
    /\ body = NoBody
    /\ posts = <<>>
    /\ infoLog = <<>>
    /\ errorLog = <<>>
    /\ thrown = NoError
    /\ postError = NoTransportError
    /\ pc = "start"
    /\ opts \in HeuristicOptions
    /\ attempt = 0
    /\ runCandidateSuiteId = Null
    /\ result = Undefined
    /\ warnings = <<>>
    /\ trace = <<>>
    /\ allRejected = TRUE
    /\ pcDet = "idle"
    /\ detOpts = IdleDetOptions
    /\ detResponse = NoResponse
    /\ detResult = Undefined
    /\ detWarnings = <<>>
    /\ detCalls = <<>>
    /\ detDebugLog = <<>>
    /\ pcSan = "idle"
    /\ headersArg = NoHeaders
    /\ sanitized = NoHeaders
    /\ pcMatch = "idle"
    /\ matchInput = NoMatchInput
    /\ matchVerified = "pending"
    /\ matchFallback = Undefined
    /\ pcReq = "idle"
    /\ reqArgs = NoRequestArgs
    /\ reqSent = ""
    /\ reqResponse = NoIncomingMessage
    /\ data = ""
    /\ promise = PendingPromise
    /\ uncaught = FALSE

\* the deterministic resolver is called once
InitDeterministic ==
    /\ pcCheck = "idle"
    /\ linterName = "eslint"
    /\ lintResult = Null
    /\ neutralCheckOnWarning = FALSE
    /\ suiteIdArg = Undefined
    /\ body = NoBody
    /\ posts = <<>>
    /\ infoLog = <<>>
    /\ errorLog = <<>>
    /\ thrown = NoError
    /\ postError = NoTransportError
    /\ pc = "idle"
    /\ opts = IdleOptions
    /\ attempt = 0
    /\ runCandidateSuiteId = Null
    /\ result = Undefined
    /\ warnings = <<>>
    /\ trace = <<>>
    /\ allRejected = TRUE
    /\ pcDet = "start"
    /\ detOpts \in DeterministicOptions
    /\ detResponse = NoResponse
    /\ detResult = Undefined
    /\ detWarnings = <<>>
    /\ detCalls = <<>>
    /\ detDebugLog = <<>>
    /\ pcSan = "idle"
    /\ headersArg = NoHeaders
    /\ sanitized = NoHeaders
    /\ pcMatch = "idle"
    /\ matchInput = NoMatchInput
    /\ matchVerified = "pending"
    /\ matchFallback = Undefined
    /\ pcReq = "idle"
    /\ reqArgs = NoRequestArgs
    /\ reqSent = ""
    /\ reqResponse = NoIncomingMessage
    /\ data = ""
    /\ promise = PendingPromise
    /\ uncaught = FALSE

\* sanitizeHeaders is called once
InitSanitize ==
    /\ pcCheck = "idle"
    /\ linterName = "eslint"
    /\ lintResult = Null
    /\ neutralCheckOnWarning = FALSE
    /\ suiteIdArg = Undefined
    /\ body = NoBody
    /\ posts = <<>>
    /\ infoLog = <<>>
    /\ errorLog = <<>>
    /\ thrown = NoError
    /\ postError = NoTransportError
    /\ pc = "idle"
    /\ opts = IdleOptions
    /\ attempt = 0
    /\ runCandidateSuiteId = Null
    /\ result = Undefined
    /\ warnings = <<>>
    /\ trace = <<>>
    /\ allRejected = TRUE
    /\ pcDet = "idle"
    /\ detOpts = IdleDetOptions
    /\ detResponse = NoResponse
    /\ detResult = Undefined
    /\ detWarnings = <<>>
    /\ detCalls = <<>>
    /\ detDebugLog = <<>>
    /\ pcSan = "start"
    /\ headersArg \in HeaderInputs
    /\ sanitized = NoHeaders
    /\ pcMatch = "idle"
    /\ matchInput = NoMatchInput
    /\ matchVerified = "pending"
    /\ matchFallback = Undefined
    /\ pcReq = "idle"
    /\ reqArgs = NoRequestArgs
    /\ reqSent = ""
    /\ reqResponse = NoIncomingMessage
    /\ data = ""
    /\ promise = PendingPromise
    /\ uncaught = FALSE

\* both rules are applied to one list of check runs
InitMatch ==
    /\ pcCheck = "idle"
    /\ linterName = "eslint"
    /\ lintResult = Null
    /\ neutralCheckOnWarning = FALSE
    /\ suiteIdArg = Undefined
    /\ body = NoBody
    /\ posts = <<>>
    /\ infoLog = <<>>
    /\ errorLog = <<>>
    /\ thrown = NoError
    /\ postError = NoTransportError
    /\ pc = "idle"
    /\ opts = IdleOptions
    /\ attempt = 0
    /\ runCandidateSuiteId = Null
    /\ result = Undefined
    /\ warnings = <<>>
    /\ trace = <<>>
    /\ allRejected = TRUE
    /\ pcDet = "idle"
    /\ detOpts = IdleDetOptions
    /\ detResponse = NoResponse
    /\ detResult = Undefined
    /\ detWarnings = <<>>
    /\ detCalls = <<>>
    /\ detDebugLog = <<>>
    /\ pcSan = "idle"
    /\ headersArg = NoHeaders
    /\ sanitized = NoHeaders
    /\ pcMatch = "start"
    /\ matchInput \in MatchInputs
    /\ matchVerified = "pending"
    /\ matchFallback = Undefined
    /\ pcReq = "idle"
    /\ reqArgs = NoRequestArgs
    /\ reqSent = ""
    /\ reqResponse = NoIncomingMessage
    /\ data = ""
    /\ promise = PendingPromise
    /\ uncaught = FALSE

\* request is called once
InitRequest ==
    /\ pcCheck = "idle"
    /\ linterName = "eslint"
    /\ lintResult = Null
    /\ neutralCheckOnWarning = FALSE
    /\ suiteIdArg = Undefined
    /\ body = NoBody
    /\ posts = <<>>
    /\ infoLog = <<>>
    /\ errorLog = <<>>
    /\ thrown = NoError
    /\ postError = NoTransportError
    /\ pc = "idle"
    /\ opts = IdleOptions
    /\ attempt = 0
    /\ runCandidateSuiteId = Null
    /\ result = Undefined
    /\ warnings = <<>>
    /\ trace = <<>>
    /\ allRejected = TRUE
    /\ pcDet = "idle"
    /\ detOpts = IdleDetOptions
    /\ detResponse = NoResponse
    /\ detResult = Undefined
    /\ detWarnings = <<>>
    /\ detCalls = <<>>
    /\ detDebugLog = <<>>
    /\ pcSan = "idle"
    /\ headersArg = NoHeaders
    /\ sanitized = NoHeaders
    /\ pcMatch = "idle"
    /\ matchInput = NoMatchInput
    /\ matchVerified = "pending"
    /\ matchFallback = Undefined
    /\ pcReq = "start"
    /\ reqArgs \in RequestArgs
    /\ reqSent = ""
    /\ reqResponse = NoIncomingMessage
    /\ data = ""
    /\ promise = PendingPromise
    /\ uncaught = FALSE

SpecPublish == InitPublish /\ [][NextPublish]_vars

SpecHeuristic == InitHeuristic /\ [][NextHeuristic]_vars

SpecDeterministic == InitDeterministic /\ [][NextDeterministic]_vars

SpecSanitize == InitSanitize /\ [][NextSanitize]_vars

SpecMatch == InitMatch /\ [][NextMatch]_vars

SpecRequest == InitRequest /\ [][NextRequest]_vars

\* the event loop runs every callback that is due: a pending call settles, a
\* timer fires, a response that started ends or fails
SpecHeuristicFair == InitHeuristic /\ [][NextHeuristic]_vars /\ WF_vars(NextHeuristic)

SpecRequestFair == InitRequest /\ [][NextRequest]_vars /\ WF_vars(NextRequest)

Init ==
    \/ InitPublish
    \/ InitHeuristic
    \/ InitDeterministic
    \/ InitSanitize
    \/ InitMatch
    \/ InitRequest

Next ==
    \/ NextPublish
    \/ NextHeuristic
    \/ NextDeterministic
    \/ NextSanitize
    \/ NextMatch
    \/ NextRequest

Spec == Init /\ [][Next]_vars

(***************************************************************************)
(* Claims about createCheck (SpecPublish)                                  *)
(***************************************************************************)
Posted == posts # <<>>
PostedAnnotations == posts[1].output.annotations
CombinedCount == Len(lintResult.error) + Len(lintResult.warning)

\* the annotation the request must carry for a finding
AnnotationOf(finding, annotationLevel) ==
    [path |-> finding.path,
     start_line |-> finding.firstLine,
     end_line |-> finding.lastLine,
     annotation_level |-> annotationLevel,
     message |-> finding.message]

\* C1: the annotations of the POSTed body are the errors (as "failure", in
\* order) followed by the warnings (as "warning", in order), cut to the first
\* 50 entries of that sequence when there are more; never more than 50.
C1_AnnotationsErrorsThenWarningsFirst50 ==
    Posted =>
        /\ Len(PostedAnnotations) = Min(CombinedCount, 50)
        /\ Len(PostedAnnotations) <= 50
        /\ \A k \in 1..Len(PostedAnnotations) :
            IF k <= Len(lintResult.error)
            THEN PostedAnnotations[k] = AnnotationOf(lintResult.error[k], "failure")
            ELSE PostedAnnotations[k] =
                     AnnotationOf(lintResult.warning[k - Len(lintResult.error)], "warning")

\* C1 witness: a posted result with errors and warnings, more than 50 together,
\* where the cut falls among the warnings
C1_Witness ==
    /\ Posted
    /\ CombinedCount > 50
    /\ Len(lintResult.error) \in 1..49
    /\ Len(lintResult.warning) > 1
    /\ Len(PostedAnnotations) = 50

\* C2: the conclusion sent is "failure" exactly when isSuccess is false,
\* whatever neutralCheckOnWarning and the number of annotations are.
C2_FailureIffNotSuccess ==
    Posted => (posts[1].conclusion = "failure" <=> ~lintResult.isSuccess)

\* C2 witness: a failed result with annotations posted with neutralCheckOnWarning set
C2_Witness ==
    /\ Posted
    /\ ~lintResult.isSuccess
    /\ neutralCheckOnWarning
    /\ Len(PostedAnnotations) > 0
    /\ posts[1].conclusion = "failure"

\* C3: the conclusion sent is "neutral" exactly when isSuccess is true, the
\* (possibly truncated) annotation list is not empty and neutralCheckOnWarning
\* is true; otherwise a successful result concludes "success"; the conclusion
\* is always one of success, failure, neutral.
C3_NeutralIffSuccessAnnotationsNeutralFlag ==
    Posted =>
        /\ posts[1].conclusion = "neutral" <=>
               (lintResult.isSuccess /\ Len(PostedAnnotations) > 0 /\ neutralCheckOnWarning)
        /\ (lintResult.isSuccess /\ posts[1].conclusion # "neutral") =>
               posts[1].conclusion = "success"
        /\ posts[1].conclusion \in {"success", "failure", "neutral"}

\* C3 witness: a successful result whose only annotations are errors, posted
\* as neutral
C3_Witness ==
    /\ Posted
    /\ lintResult.isSuccess
    /\ neutralCheckOnWarning
    /\ Len(lintResult.warning) = 0
    /\ Len(lintResult.error) > 0
    /\ posts[1].conclusion = "neutral"

IsCall(i) == trace[i].e = "call"
CallsOfAttempt(k) == SelectSeq(trace, LAMBDA ev : ev.e = "call" /\ ev.attempt = k)
CountPath(calls, path) == Cardinality({i \in DOMAIN calls : calls[i].path = path})

\* a strategy produced a suite id: the job hint's check run, the verification
\* of the run candidate, or the commit fallback
StrategySucceeded ==
    \E i \in DOMAIN trace :
        /\ IsCall(i)
        /\ trace[i].path \in {"{check_run_url}", "check-suites/{id}/check-runs",
                              "commits/{sha}/check-runs"}
        /\ trace[i].got # Null

\* the run lookups of attempt k that read a numeric check_suite_id
RunLookupsWithId(k) ==
    {i \in DOMAIN trace :
        /\ IsCall(i)
        /\ trace[i].attempt = k
        /\ trace[i].path = "actions/runs/{runId}"
        /\ trace[i].got # Null}

IsResult(x) == x = Null \/ x.t \in {"number", "number-fraction"}

\* C5: neither resolver throws: whatever the network calls do (fail, or
\* return a payload of any shape), the resolver goes on until it returns a
\* result (null or a number), and when every call failed the result is null
\* with one warning logged.
C5_ResolverNeverThrows ==
    /\ pc # "thrown"
    /\ pcDet # "thrown"
    /\ pc \notin {"idle", "done"} => ENABLED NextHeuristic
    /\ pcDet \notin {"idle", "done"} => ENABLED NextDeterministic
    /\ pc = "done" => IsResult(result)
    /\ pcDet = "done" => IsResult(detResult)
    /\ (pc = "done" /\ trace # <<>> /\ allRejected) =>
           (result = Null /\ Len(warnings) = 1)
    /\ (pcDet = "done" /\ detResponse.shape = "rejected") =>
           (detResult = Null /\ Len(detWarnings) = 1)

\* C5 witness: the heuristic resolver returned after two attempts in which all
\* six calls (jobs, run, commit check-runs) failed
C5_Witness ==
    /\ pc = "done"
    /\ allRejected
    /\ Len(CallsOfAttempt(1)) = 3
    /\ Len(CallsOfAttempt(2)) = 3
    /\ result = Null

\* C6: with mode "none", or without a run id, the heuristic resolver returns
\* null and issues no network call (and no sleep), whatever the other options.
C6_DisabledOrNoRunIdNoCalls ==
    (pc # "idle" /\ (opts.mode = "none" \/ opts.runId \in {Undefined, Str(0)})) =>
        /\ trace = <<>>
        /\ pc \in {"start", "done"}
        /\ pc = "done" => result = Null

\* C6 witness: no run id, and every other option asks for work
C6_Witness ==
    /\ pc = "done"
    /\ opts.runId = Undefined
    /\ opts.mode = "auto"
    /\ opts.jobNameHint = JobLint
    /\ opts.headSha = ShaAbc123
    /\ opts.retries = Num(2)
    /\ opts.delayMs = Num(1500)
    /\ result = Null

\* the case of C7: the resolver is done, no strategy succeeded, and the run
\* lookup of every attempt read a numeric check_suite_id
C7_Case ==
    /\ pc = "done"
    /\ attempt >= 1
    /\ ~StrategySucceeded
    /\ \A k \in 1..attempt : RunLookupsWithId(k) # {}

C8_Case ==
    /\ pc = "done"
    /\ attempt >= 1
    /\ ~StrategySucceeded
    /\ \A k \in 1..attempt : RunLookupsWithId(k) = {}

\* C8: if no strategy succeeds and the run lookup never yields a numeric
\* check_suite_id (also when every call fails), the resolver returns null and
\* logs exactly one warning, which contains "Could not resolve check suite".
C8_UnresolvedNullOneWarning ==
    C8_Case =>
        /\ result = Null
        /\ Len(warnings) = 1
        /\ Includes(warnings[1].text, <<"Could not resolve check suite">>)

\* C8 witness: two attempts with a job hint and a head sha in which every call
\* failed
C8_Witness ==
    /\ C8_Case
    /\ allRejected
    /\ attempt = 2
    /\ Len(CallsOfAttempt(1)) = 3
    /\ Len(CallsOfAttempt(2)) = 3

\* the attempts one invocation may make: retries, and one when retries is
\* below one or not an integer
C9_MaxAttempts ==
    IF opts.retries.t = "number" /\ opts.retries.v > 1 THEN opts.retries.v ELSE 1

\* C9 as stated: at most `retries` attempts are made
C9_Original_AtMostRetriesAttempts ==
    (pc = "done" /\ opts.retries.t = "number" /\ opts.retries.v >= 0) =>
        attempt <= opts.retries.v

\* C9 as amended: at most max(retries, 1) attempts are made (one when retries
\* is not an integer), at least one when the run id is present and the mode
\* is not none, and an attempt issues at most 5 network calls: at most 2 for
\* the job hint, 2 for run lookup and verification, 1 for the commit fallback.
C9_AtMostMaxRetries1Attempts ==
    /\ attempt <= C9_MaxAttempts
    /\ \A i \in DOMAIN trace : trace[i].attempt \in 1..C9_MaxAttempts
    /\ \A k \in 1..attempt :
        LET calls == CallsOfAttempt(k)
        IN  /\ Len(calls) <= 5
            /\ CountPath(calls, "actions/runs/{runId}/jobs") <= 1
            /\ CountPath(calls, "{check_run_url}") <= 1
            /\ CountPath(calls, "actions/runs/{runId}") <= 1
            /\ CountPath(calls, "check-suites/{id}/check-runs") <= 1
            /\ CountPath(calls, "commits/{sha}/check-runs") <= 1
    /\ (pc = "done" /\ opts.runId = RunId123 /\ opts.mode \notin {"none", "NONE"}) =>
           (attempt >= 1 /\ CallsOfAttempt(1) # <<>>)

\* C9 witness: retries is 0 and the single attempt made all five calls
C9_Witness ==
    /\ pc = "done"
    /\ opts.retries = Num(0)
    /\ attempt = 1
    /\ Len(CallsOfAttempt(1)) = 5

\* what a caller reads from the returned value: a property of a number or of
\* null is undefined
ResultProperty(x, key) == IF x.t = "object" THEN x.v[key] ELSE Undefined

\* C10: with a positive integer jobCheckRunId and a successful fetch whose
\* body carries check_suite.id = S and head_sha = H, the deterministic
\* resolver returns {checkSuiteId: S, checkRunHeadSha: H} after exactly one
\* network call, with no retry and no warning.
C10_ReturnsSuiteIdAndHeadSha ==
    (/\ pcDet = "done"
     /\ detResponse.shape = "data"
     /\ detResponse.suite.t = "number"
     /\ detResponse.head_sha.t = "string") =>
        /\ ResultProperty(detResult, "checkSuiteId") = detResponse.suite
        /\ ResultProperty(detResult, "checkRunHeadSha") = detResponse.head_sha
        /\ Len(detCalls) = 1
        /\ detWarnings = <<>>

(***************************************************************************)
(* Claims about the deterministic resolver (SpecDeterministic)             *)
(***************************************************************************)
ValidJobCheckRunId == detOpts.jobCheckRunId.t = "number" /\ detOpts.jobCheckRunId.v >= 1

\* C11: with a valid jobCheckRunId whose fetch fails, the deterministic
\* resolver returns null, logs exactly one warning, and has made exactly one
\* network call: nothing runs after the failure (no retry).
C11_FetchFailureNullOneWarningNoRetry ==
    (pcDet = "done" /\ ValidJobCheckRunId /\ detResponse.shape = "rejected") =>
        /\ detResult = Null
        /\ Len(detWarnings) = 1
        /\ Includes(detWarnings[1].text, <<"Could not resolve check suite">>)
        /\ Len(detCalls) = 1
        /\ detCalls[1] = [path |-> "check-runs/{id}", arg |-> detOpts.jobCheckRunId]
        /\ ~ENABLED NextDeterministic

\* C11 witness: the fetch of check run 1 failed and the resolver returned
C11_Witness ==
    /\ pcDet = "done"
    /\ detOpts.jobCheckRunId = Num(1)
    /\ detResponse.shape = "rejected"
    /\ detResult = Null

\* C12: when jobCheckRunId is missing (undefined or null), not an integer, or
\* not positive, the deterministic resolver returns null at once: it never
\* waits for a fetch, issues no network call and logs no warning.
C12_InvalidJobCheckRunIdNullNoCalls ==
    (pcDet # "idle" /\ ~ValidJobCheckRunId) =>
        /\ pcDet \in {"start", "done"}
        /\ detCalls = <<>>
        /\ detWarnings = <<>>
        /\ pcDet = "done" => detResult = Null

\* C12 witness: the id 0 was refused
C12_Witness ==
    /\ pcDet = "done"
    /\ detOpts.jobCheckRunId = Num(0)
    /\ detResult = Null
    /\ detCalls = <<>>

(***************************************************************************)
(* Claims about the failures of createCheck (SpecPublish)                  *)
(***************************************************************************)
\* C13: whenever createCheck rejects, after a rejected POST or because no
\* lint result was provided, the error it rejects with has a message that
\* names the linter.
C13_EveryFailureNamesLinter ==
    pcCheck = "rejected" => Includes(thrown.v, <<linterName>>)

\* C14: one call of createCheck with a lint result issues exactly one POST to
\* check-runs, whether the POST resolves or rejects; after either outcome
\* createCheck does nothing more (no retry).
C14_ExactlyOnePostNoRetry ==
    /\ Len(posts) <= 1
    /\ (pcCheck \in {"post", "done", "rejected"} /\ lintResult # Null) => Len(posts) = 1
    /\ pcCheck \in {"done", "rejected"} => ~ENABLED NextPublish

\* C14 witness: the POST of a lint result was rejected and createCheck threw
C14_Witness ==
    /\ pcCheck = "rejected"
    /\ lintResult # Null
    /\ thrown.t = "Error"
    /\ Len(posts) = 1

(***************************************************************************)
(* Claims about sanitizeHeaders (SpecSanitize)                             *)
(***************************************************************************)
\* the header names of the model whose lowercased text contains
\* authorization, token, cookie or set-cookie, judged by reading them
NamesReadAsSensitive ==
    {HdrAuthorization, HdrXGitHubToken, HdrSetCookie, HdrCOOKIE, HdrProxyAuthorization}

\* C15: sanitizeHeaders returns a map with the same keys in the same order, in
\* which the value of a header is "[redacted]" when its lowercased name
\* contains authorization, token, cookie or set-cookie, and is the value it
\* was given when the name contains none of them.
C15_RedactedIffNameContainsSensitiveKey ==
    (pcSan = "done" /\ headersArg.t = "object") =>
        /\ sanitized.t = "object"
        /\ Len(sanitized.entries) = Len(headersArg.entries)
        /\ \A i \in 1..Len(headersArg.entries) :
            LET key == headersArg.entries[i].key
                contains == \E k \in 1..4 : Includes(LowerKey(key), SENSITIVE_HEADER_KEYS[k])
            IN  /\ sanitized.entries[i].key = key
                /\ contains <=> key \in NamesReadAsSensitive
                /\ sanitized.entries[i].value =
                       IF key \in NamesReadAsSensitive
                       THEN "[redacted]"
                       ELSE headersArg.entries[i].value

\* C15 witness: {X-GitHub-Token: "Bearer x", X-Tok-En: "bar"} became
\* {X-GitHub-Token: "[redacted]", X-Tok-En: "bar"}
C15_Witness ==
    /\ pcSan = "done"
    /\ headersArg = HeaderObject(<<[key |-> HdrXGitHubToken, value |-> "Bearer x"],
                                   [key |-> HdrXTokEn, value |-> "bar"]>>)
    /\ sanitized = HeaderObject(<<[key |-> HdrXGitHubToken, value |-> "[redacted]"],
                                  [key |-> HdrXTokEn, value |-> "bar"]>>)

(***************************************************************************)
(* Claims about the strategies of the heuristic resolver (SpecHeuristic)   *)
(***************************************************************************)
JobHintPath == {"actions/runs/{runId}/jobs", "{check_run_url}"}
RunLookupPath == {"actions/runs/{runId}", "check-suites/{id}/check-runs"}
CommitFallbackPath == {"commits/{sha}/check-runs"}

IsCallTo(i, path) == IsCall(i) /\ trace[i].path = path
SleepsOfAttempt(k) == SelectSeq(trace, LAMBDA ev : ev.e = "sleep" /\ ev.attempt = k)

\* the verifications that found a check run of the current run
VerifiedAt == {i \in DOMAIN trace : IsCallTo(i, "check-suites/{id}/check-runs")
                                     /\ trace[i].got # Null}

\* C16: without a job hint, when the run lookup reads a numeric
\* check_suite_id and the suite's check runs contain one of the current run,
\* the resolver returns that id at once: the attempt made exactly the two
\* calls actions/runs/{runId} and check-suites/{id}/check-runs, in that order,
\* nothing follows (no commit-fallback call, no sleep) and no warning is logged.
C16_VerifiedCandidateReturnedAfterTwoCalls ==
    \A i \in VerifiedAt :
        opts.jobNameHint = Str(0) =>
            /\ pc = "done"
            /\ i = Len(trace)
            /\ i >= 2
            /\ IsCallTo(i - 1, "actions/runs/{runId}")
            /\ trace[i - 1].arg = opts.runId
            /\ trace[i - 1].got = result
            /\ trace[i].arg = result
            /\ result.t = "number"
            /\ CallsOfAttempt(trace[i].attempt) = <<trace[i - 1], trace[i]>>
            /\ SleepsOfAttempt(trace[i].attempt) = <<>>
            /\ warnings = <<>>

\* C16 witness: no job hint, a head sha is known, and the second attempt
\* verified the candidate 2
C16_Witness ==
    /\ pc = "done"
    /\ opts.jobNameHint = Str(0)
    /\ opts.headSha = ShaAbc123
    /\ attempt = 2
    /\ VerifiedAt # {}
    /\ result = Num(2)

CommitCalls == {i \in DOMAIN trace : IsCallTo(i, "commits/{sha}/check-runs")}

\* the verifications that failed: the fetch failed or no check run matched
UnverifiedAt == {i \in DOMAIN trace : IsCallTo(i, "check-suites/{id}/check-runs")
                                       /\ trace[i].got = Null}

\* after a failed verification the commit check-runs are fetched next when a
\* head sha is known, and are never fetched when none is known
C17_FallbackFollowsFailedVerification ==
    /\ \A i \in UnverifiedAt :
        Truthy(opts.headSha) =>
            IF i = Len(trace)
            THEN pc = "commit_fallback"
            ELSE /\ IsCallTo(i + 1, "commits/{sha}/check-runs")
                 /\ trace[i + 1].arg = opts.headSha
                 /\ trace[i + 1].attempt = trace[i].attempt
    /\ ~Truthy(opts.headSha) => (CommitCalls = {} /\ pc # "commit_fallback")

\* C17 as stated: the commit check-runs call that follows a failed
\* verification is the third call of its attempt, and when a check run of its
\* response matches the current run the resolver returns that check run's
\* check_suite.id.
C17_Original_ThirdCallReturnsMatch ==
    /\ C17_FallbackFollowsFailedVerification
    /\ \A i \in CommitCalls :
        LET calls == CallsOfAttempt(trace[i].attempt)
        IN  (i - 1) \in UnverifiedAt =>
            /\ Len(calls) >= 3
            /\ calls[3] = trace[i]
            /\ trace[i].matched =>
                   (pc = "done" /\ i = Len(trace) /\ result.t = "number"
                    /\ result = trace[i].got)

\* the calls an attempt makes before its commit fallback: the job-hint calls
\* when a job hint is set, then the run lookup and, if it read a candidate,
\* the verification
BeforeFallback(calls) ==
    /\ \A j \in 1..(Len(calls) - 1) : calls[j].path \in JobHintPath \cup RunLookupPath
    /\ CountPath(calls, "actions/runs/{runId}") = 1
    /\ (opts.jobNameHint = Str(0)) => \A j \in 1..Len(calls) : calls[j].path \notin JobHintPath
    /\ (opts.jobNameHint # Str(0)) => calls[1].path = "actions/runs/{runId}/jobs"

\* C17 as amended: after a failed verification, with a head sha, the commit
\* check-runs are fetched next; the call is the last of its attempt, after the
\* job-hint calls (if a hint is set) and the run-lookup calls, so it is the
\* third call when no hint is set and the run lookup read a candidate; when
\* the response holds a matching check run with a numeric check_suite.id the
\* resolver returns that id and stops; a matching check run without a numeric
\* id is passed over; without a head sha the endpoint is never called.
C17_FallbackReturnsMatchWithSuiteId ==
    /\ C17_FallbackFollowsFailedVerification
    /\ \A i \in CommitCalls :
        LET calls == CallsOfAttempt(trace[i].attempt)
        IN  /\ calls[Len(calls)] = trace[i]
            /\ BeforeFallback(calls)
            /\ (opts.jobNameHint = Str(0) /\ CountPath(calls, "check-suites/{id}/check-runs") = 1)
                   => (Len(calls) = 3 /\ calls[3] = trace[i])
            /\ (opts.jobNameHint # Str(0) /\ CountPath(calls, "check-suites/{id}/check-runs") = 1)
                   => Len(calls) \in {4, 5}
            /\ trace[i].got # Null =>
                   (/\ trace[i].matched
                    /\ pc = "done"
                    /\ i = Len(trace)
                    /\ result.t = "number"
                    /\ result = trace[i].got
                    /\ warnings = <<>>)
            /\ (trace[i].got = Null /\ i = Len(trace)) =>
                   pc \in {"sleep", "done"}
            /\ (trace[i].got = Null /\ pc = "done" /\ i = Len(trace)) =>
                   (result = runCandidateSuiteId /\ Len(warnings) = 1)

\* C17 witness: no job hint; the candidate 1 failed verification and the
\* commit check-runs, fetched as the third call, gave the suite 2
C17_Witness ==
    /\ pc = "done"
    /\ opts.jobNameHint = Str(0)
    /\ attempt = 1
    /\ Len(trace) = 3
    /\ UnverifiedAt = {2}
    /\ trace[2].arg = Num(1)
    /\ CommitCalls = {3}
    /\ trace[3].matched
    /\ result = Num(2)

\* attempt k read a candidate from the run lookup, its verification found no
\* match and its commit fallback found no suite
CandidateFailedBoth(k) ==
    LET calls == CallsOfAttempt(k)
    IN  /\ \E j \in DOMAIN calls :
            calls[j].path = "actions/runs/{runId}" /\ calls[j].got # Null
        /\ \E j \in DOMAIN calls :
            calls[j].path = "check-suites/{id}/check-runs" /\ calls[j].got = Null
        /\ \E j \in DOMAIN calls :
            calls[j].path = "commits/{sha}/check-runs" /\ calls[j].got = Null

\* the case of C18: the resolver is done and in every attempt the candidate
\* failed verification and the commit fallback found nothing
C18_Case ==
    /\ pc = "done"
    /\ attempt >= 1
    /\ \A k \in 1..attempt : CandidateFailedBoth(k)

StepRank(path) ==
    CASE path = "actions/runs/{runId}/jobs" -> 1
      [] path = "{check_run_url}" -> 2
      [] path = "actions/runs/{runId}" -> 3
      [] path = "check-suites/{id}/check-runs" -> 4
      [] path = "commits/{sha}/check-runs" -> 5
      [] OTHER -> 6

\* the calls that end a strategy with a suite id
YieldedAt ==
    {i \in DOMAIN trace :
        /\ IsCall(i)
        /\ trace[i].path \in {"{check_run_url}", "check-suites/{id}/check-runs",
                              "commits/{sha}/check-runs"}
        /\ trace[i].got # Null}

\* C19: within every attempt the calls follow the chain job hint, run
\* lookup, commit fallback, each call at most once; the first strategy that
\* yields an id ends the resolution (it is the last event, and its id is
\* returned); the events of attempt k all come before those of attempt k+1,
\* with the sleep of attempt k between them.
C19_StrategiesInOrderFirstSuccessEnds ==
    /\ \A i, j \in DOMAIN trace :
        (i < j /\ IsCall(i) /\ IsCall(j) /\ trace[i].attempt = trace[j].attempt) =>
            StepRank(trace[i].path) < StepRank(trace[j].path)
    /\ \A i \in DOMAIN trace :
        (IsCall(i) /\ StepRank(trace[i].path) \in {2, 4}) =>
            (i > 1 /\ IsCall(i - 1) /\ trace[i - 1].attempt = trace[i].attempt
             /\ StepRank(trace[i - 1].path) = StepRank(trace[i].path) - 1)
    /\ \A i \in DOMAIN trace :
        IsCallTo(i, "commits/{sha}/check-runs") =>
            \E j \in 1..(i - 1) : /\ IsCallTo(j, "actions/runs/{runId}")
                                  /\ trace[j].attempt = trace[i].attempt
    /\ \A k \in 1..attempt :
        (opts.jobNameHint # Str(0) /\ CallsOfAttempt(k) # <<>>) =>
            CallsOfAttempt(k)[1].path = "actions/runs/{runId}/jobs"
    /\ \A i \in YieldedAt :
        /\ i = Len(trace)
        /\ pc = "done"
        /\ result = trace[i].got
        /\ attempt = trace[i].attempt
    /\ \A i, j \in DOMAIN trace : i < j => trace[i].attempt <= trace[j].attempt
    /\ \A i \in DOMAIN trace :
        (i < Len(trace) /\ trace[i].attempt < trace[i + 1].attempt) =>
            /\ trace[i].e = "sleep"
            /\ trace[i + 1].attempt = trace[i].attempt + 1
    /\ \A i \in DOMAIN trace : trace[i].e = "sleep" => Len(SleepsOfAttempt(trace[i].attempt)) = 1
    /\ (trace # <<>> /\ pc \notin {"done", "sleep"}) => trace[Len(trace)].attempt <= attempt
    /\ trace # <<>> => trace[Len(trace)].attempt \in {attempt, attempt - 1}

\* C19 witness: with a job hint and a head sha, the first attempt ran all
\* five calls without a result, and the second attempt ended at its run
\* verification, which yielded the suite id
C19_Witness ==
    /\ pc = "done"
    /\ opts.jobNameHint = JobLint
    /\ opts.headSha = ShaAbc123
    /\ attempt = 2
    /\ Len(CallsOfAttempt(1)) = 5
    /\ Len(CallsOfAttempt(2)) = 4
    /\ YieldedAt = {Len(trace)}
    /\ trace[Len(trace)].path = "check-suites/{id}/check-runs"

\* the paths of the calls of attempt k
PathsOfAttempt(k) ==
    LET calls == CallsOfAttempt(k) IN [j \in 1..Len(calls) |-> calls[j].path]

\* the calls of an attempt in which every GET fails: one per strategy
OneCallPerStrategy ==
    (IF opts.jobNameHint # Str(0) THEN <<"actions/runs/{runId}/jobs">> ELSE <<>>)
    \o <<"actions/runs/{runId}">>
    \o (IF opts.headSha \notin {Null, Str(0)} THEN <<"commits/{sha}/check-runs">> ELSE <<>>)

\* the event after trace[i] is a call to one of the paths, in the same attempt;
\* while the response is being handled the resolver waits at one of the steps
NextIs(i, paths, steps) ==
    IF i = Len(trace)
    THEN pc \in steps
    ELSE /\ IsCall(i + 1)
         /\ trace[i + 1].path \in paths
         /\ trace[i + 1].attempt = trace[i].attempt

\* C20: a strategy that gives no id, because its GET failed, the job or its
\* check_run_url is missing, or the response has no id, only ends that
\* strategy: after the job hint the run lookup of the same attempt runs, after
\* the run lookup or the verification the commit fallback of the same attempt
\* runs when a head sha is known; an attempt whose GETs all fail makes one
\* call per strategy; and no warning is logged before the resolver returns,
\* where it logs at most one.
C20_FailedStrategyFallsThrough ==
    /\ \A i \in DOMAIN trace :
        /\ IsCallTo(i, "actions/runs/{runId}/jobs") =>
               NextIs(i, {"{check_run_url}", "actions/runs/{runId}"},
                      {"hint_check_run", "run_lookup"})
        /\ (IsCallTo(i, "{check_run_url}") /\ trace[i].got = Null) =>
               NextIs(i, {"actions/runs/{runId}"}, {"run_lookup"})
        /\ (IsCallTo(i, "actions/runs/{runId}") /\ trace[i].got = Null
            /\ Truthy(opts.headSha)) =>
               NextIs(i, {"commits/{sha}/check-runs"}, {"commit_fallback"})
        /\ (IsCallTo(i, "check-suites/{id}/check-runs") /\ trace[i].got = Null
            /\ Truthy(opts.headSha)) =>
               NextIs(i, {"commits/{sha}/check-runs"}, {"commit_fallback"})
    /\ allRejected =>
        \A k \in 1..attempt :
            (k < attempt \/ pc \in {"sleep", "done"}) =>
                PathsOfAttempt(k) = OneCallPerStrategy
    /\ pc # "done" => warnings = <<>>
    /\ (pc = "done" /\ trace # <<>>) => Len(warnings) <= 1
    /\ (pc = "done" /\ YieldedAt # {}) => warnings = <<>>

\* C20 witness: with a job hint and a head sha, the jobs GET, the run GET and
\* the commit check-runs GET of the first attempt all failed, and the second
\* attempt has begun
C20_Witness ==
    /\ allRejected
    /\ opts.jobNameHint = JobLint
    /\ opts.headSha = ShaAbc123
    /\ attempt = 2
    /\ PathsOfAttempt(1) = <<"actions/runs/{runId}/jobs", "actions/runs/{runId}",
                             "commits/{sha}/check-runs">>
    /\ warnings = <<>>

(***************************************************************************)
(* Claims about the retry loop of the heuristic resolver (SpecHeuristic)   *)
(***************************************************************************)
SleepsAt == {i \in DOMAIN trace : trace[i].e = "sleep"}

\* where the sleeps are: one after each attempt that gave no id while another
\* attempt remained, between the last call of attempt k and the first call of
\* attempt k+1; none after the last attempt or after a strategy that gave an id
SleepsBetweenAttempts ==
    /\ \A k \in 1..attempt :
        Len(SleepsOfAttempt(k)) = (IF k < attempt \/ pc = "sleep" THEN 1 ELSE 0)
    /\ \A i \in SleepsAt :
        /\ trace[i].attempt < C9_MaxAttempts
        /\ i > 1
        /\ IsCall(i - 1)
        /\ trace[i - 1].attempt = trace[i].attempt
        /\ trace[i - 1].got = Null
        /\ IF i = Len(trace)
           THEN \/ pc = "sleep" /\ attempt = trace[i].attempt
                \/ pc \in {"hint_jobs", "run_lookup"} /\ attempt = trace[i].attempt + 1
           ELSE IsCall(i + 1) /\ trace[i + 1].attempt = trace[i].attempt + 1
    /\ YieldedAt # {} => trace[Len(trace)].e = "call"
    /\ pc = "done" => (trace = <<>> \/ trace[Len(trace)].e = "call")
    /\ (pc = "done" /\ trace # <<>> /\ YieldedAt = {}) =>
           (attempt = C9_MaxAttempts /\ Cardinality(SleepsAt) = attempt - 1)

\* C21 as stated: the sleeps lie between the attempts as described, and each
\* sleep lasts delayMs.
C21_Original_SleepsDelayMs ==
    /\ SleepsBetweenAttempts
    /\ \A i \in SleepsAt : trace[i].arg = opts.delayMs

\* C21 as amended: the sleeps lie between the attempts as described, and each
\* sleep lasts delayMs when delayMs is an integer that is not negative, and 0
\* when delayMs is not an integer.
C21_SleepsNormalizedDelay ==
    /\ SleepsBetweenAttempts
    /\ \A i \in SleepsAt :
        trace[i].arg = (IF opts.delayMs.t = "number" /\ opts.delayMs.v >= 0
                        THEN opts.delayMs
                        ELSE Num(0))

\* C21 witness: two attempts that both failed, with a delay that is not an
\* integer: one sleep, of 0 ms, between the attempts
C21_Witness ==
    /\ pc = "done"
    /\ YieldedAt = {}
    /\ opts.delayMs = NonInteger
    /\ attempt = 2
    /\ Cardinality(SleepsAt) = 1
    /\ \A i \in SleepsAt : trace[i].arg = Num(0) /\ trace[i].attempt = 1

\* the candidate observed last: the id read by the latest run lookup that read
\* one, null when none did
LatestCandidate ==
    LET seen == {i \in DOMAIN trace : IsCallTo(i, "actions/runs/{runId}")
                                       /\ trace[i].got # Null}
    IN  IF seen = {}
        THEN Null
        ELSE trace[CHOOSE i \in seen : \A j \in seen : j <= i].got

ReadAsMatching(runId) ==
    IF runId = RunId123
    THEN {MatchWithSuite, MatchNoSuite, MatchTextSuite, MatchByHtmlUrl}
    ELSE {DetailsOfOtherRun}

\* the rule as the claim states it, for one check run: app.slug is
\* "github-actions" and (details_url || html_url) contains /actions/runs/{runId}/
RuleHoldsFor(runId, checkRun) ==
    /\ ~checkRun.isNull
    /\ checkRun.hasApp
    /\ checkRun.slug = "github-actions"
    /\ LET url == IF Truthy(checkRun.details_url)
                  THEN checkRun.details_url
                  ELSE checkRun.html_url
       IN  /\ url.t = "string"
           /\ Includes(StringText(url),
                       <<"/", "actions", "/", "runs", "/">> \o StringText(runId) \o <<"/">>)

MatchItems == matchInput.checkRuns.items
RuleHolds ==
    /\ matchInput.checkRuns.isArray
    /\ \E i \in DOMAIN MatchItems : RuleHoldsFor(matchInput.runId, MatchItems[i])

\* the entries that satisfy the rule and carry a numeric check_suite.id
WithSuiteId ==
    {i \in DOMAIN MatchItems : /\ RuleHoldsFor(matchInput.runId, MatchItems[i])
                               /\ MatchItems[i].suite.t = "number"}

\* the verification step matches exactly when the rule holds for the list,
\* the rule agrees with the reading of every check run, and what is not a
\* list matches nothing
VerificationAppliesRule ==
    /\ \A i \in DOMAIN MatchItems :
        RuleHoldsFor(matchInput.runId, MatchItems[i])
            <=> MatchItems[i] \in ReadAsMatching(matchInput.runId)
    /\ matchVerified # "pending" => (matchVerified = "true" <=> RuleHolds)
    /\ (~matchInput.checkRuns.isArray /\ matchVerified # "pending") => matchVerified = "false"
    /\ (~matchInput.checkRuns.isArray /\ matchFallback # Undefined) => matchFallback = Null

\* C23 as stated: verification and commit fallback apply the same rule: each
\* finds a match exactly when the rule holds for the list.
C23_Original_BothStepsSameRule ==
    /\ VerificationAppliesRule
    /\ matchFallback # Undefined => (matchFallback # Null <=> RuleHolds)

\* C23 as amended: verification matches exactly when the rule holds for the
\* list; the commit fallback finds a suite exactly when some check run
\* satisfies the rule and also carries a numeric check_suite.id, and it gives
\* the id of the first such check run; what is not a list matches nothing.
C23_FallbackRuleNeedsSuiteId ==
    /\ pcMatch = "start" => VerificationAppliesRule
    /\ (pcMatch = "start" /\ matchFallback # Undefined) =>
        /\ matchFallback # Null <=> (matchInput.checkRuns.isArray /\ WithSuiteId # {})
        /\ matchFallback # Null =>
               /\ matchFallback = MatchItems[CHOOSE i \in WithSuiteId :
                                                 \A j \in WithSuiteId : i <= j].suite
               /\ RuleHolds

\* C23 witness: in the list of a check run of the run without a suite id and
\* one found by its html_url with suite 2, verification matches and the
\* commit fallback gives 2
C23_Witness ==
    /\ pcMatch = "start"
    /\ matchInput.runId = RunId123
    /\ matchInput.checkRuns = [isArray |-> TRUE, items |-> <<MatchNoSuite, MatchByHtmlUrl>>]
    /\ matchVerified = "true"
    /\ matchFallback = Num(2)


\* the ids the heuristic resolver read from responses of network calls that
\* carry a suite id: the job's check run, the workflow run, the commit's
\* check runs
ObservedSuiteIds ==
    {trace[i].got : i \in {j \in 1..Len(trace) :
        /\ IsCall(j)
        /\ trace[j].path \in {"{check_run_url}", "actions/runs/{runId}",
                              "commits/{sha}/check-runs"}}}

IsPositiveInteger(x) == x.t = "number" /\ x.v >= 1

\* C24: every non-null suite id returned by a resolver (heuristic or
\* deterministic) is a positive integer that appeared in a response received
\* during the same invocation.
C24_ReturnedIdPositiveAndObserved ==
    /\ (pc = "done" /\ result # Null) =>
          /\ IsPositiveInteger(result)
          /\ result \in ObservedSuiteIds
    /\ (pcDet = "done" /\ detResult # Null) =>
          /\ IsPositiveInteger(detResult)
          /\ detResponse.shape = "data"
          /\ detResult = detResponse.suite

\* the part of C24 the code does keep: a returned id was read from a response
C24_ReturnedIdObserved ==
    /\ (pc = "done" /\ result # Null) => result \in ObservedSuiteIds
    /\ (pcDet = "done" /\ detResult # Null) =>
          /\ detResponse.shape = "data"
          /\ detResult = detResponse.suite


\* C25: when the fetch of the job's check run succeeds but the response has
\* no numeric check_suite.id, the deterministic resolver logs exactly one
\* warning and returns a null suite id together with the response's head_sha
\* when that is present.
C25_NoSuiteIdWarnsAndKeepsHeadSha ==
    (/\ pcDet = "done"
     /\ detResponse.shape = "data"
     /\ ~IsNumber(detResponse.suite)) =>
        /\ detWarnings = <<WarnDeterministic>>
        /\ \/ detResult = Null
           \/ ResultProperty(detResult, "checkSuiteId") = Null
        /\ detResponse.head_sha.t = "string" =>
              ResultProperty(detResult, "checkRunHeadSha") = detResponse.head_sha


(***************************************************************************)
(* Claims about the message of a rejected POST (SpecPublish)               *)
(***************************************************************************)
\* the POST rejected and createCheck rethrew
PostRejected == pcCheck = "rejected" /\ thrown.t = "Error"

\* the linter-named error built from the transport message alone
LinterNamedError ==
    <<"Error trying to create GitHub check for ", linterName, ": ", postError.message>>

\* text is prefix followed by the parts, in order
StartsWith(text, prefix) ==
    Len(text) >= Len(prefix) /\ SubSeq(text, 1, Len(prefix)) = prefix

\* C26: when the POST fails and the error carries a response body, the error
\* createCheck rejects with starts with the linter-named transport message
\* and carries the body's message and documentation_url (each when the
\* parsed body has it, the message first) when the body parses as JSON; when
\* the body does not parse the error is the linter-named transport message
\* alone.
C26_ParsedBodyAppendedParseFailureIgnored ==
    (PostRejected /\ postError.hasData) =>
        /\ StartsWith(thrown.v, LinterNamedError)
        /\ LET rest == SubSeq(thrown.v, Len(LinterNamedError) + 1, Len(thrown.v))
               msg == IF postError.data.parses /\ postError.data.message
                      THEN <<". ", "data.message">> ELSE <<>>
               doc == IF postError.data.parses /\ postError.data.documentation_url
                      THEN <<" ", "data.documentation_url">> ELSE <<>>
           IN  /\ rest = msg \o doc
               /\ ~postError.data.parses => thrown.v = LinterNamedError
        /\ errorLog = <<SubSeq(thrown.v, 4, Len(thrown.v))>>

\* C26 witness: the POST rejected with a body that parses and has a message
\* and a documentation_url, and both were appended
C26_Witness ==
    /\ PostRejected
    /\ postError.hasData
    /\ postError.data.parses
    /\ postError.data.message
    /\ postError.data.documentation_url
    /\ Len(thrown.v) = 8


\* the request id of the failed response, as it would read in a message
RequestIdText == "x-github-request-id"

\* C27: when the POST fails after a response was received and the response
\* carries a request-id header, the error createCheck rejects with includes
\* that request id in its message.
C27_RequestIdInMessage ==
    (PostRejected /\ postError.requestId) => Includes(thrown.v, <<RequestIdText>>)


(***************************************************************************)
(* Claims about request (SpecRequest)                                      *)
(***************************************************************************)
Rejected == promise.state = "rejected"

\* every header of a sanitized object whose name reads as sensitive holds the
\* marker, and the object has the names of the original, in order
Redacted(sanitizedHeaders, original) ==
    /\ sanitizedHeaders.t = original.t
    /\ Len(sanitizedHeaders.entries) = Len(original.entries)
    /\ \A i \in 1..Len(original.entries) :
        /\ sanitizedHeaders.entries[i].key = original.entries[i].key
        /\ original.entries[i].key \in NamesReadAsSensitive =>
              sanitizedHeaders.entries[i].value = "[redacted]"

\* the error carries the diagnostics of the request
CarriesRequestInfo(err) ==
    /\ err.hasRequestInfo
    /\ err.requestInfo.url = reqArgs.url
    /\ err.requestInfo.method \in {"GET", reqArgs.options.method}
    /\ err.requestInfo.method # ""
    /\ Redacted(err.requestInfo.headers, reqArgs.options.headers)

\* the error carries the status code and the headers of the response
CarriesResponseInfo(err) ==
    /\ err.hasStatusCode
    /\ err.hasResponseHeaders
    /\ err.statusCode = reqResponse.statusCode
    /\ Redacted(err.responseHeaders, reqResponse.headers)

CarriesNoResponseInfo(err) == ~err.hasStatusCode /\ ~err.hasResponseHeaders

\* the promise was rejected because the response ended with a status >= 400
RejectedByStatus == pcReq = "ended" /\ reqResponse.statusCode >= ErrorStatus

\* C28 as stated: every error request() rejects with carries the request
\* diagnostics (url, method, sanitized request headers), and carries a status
\* code and sanitized response headers exactly when a response with a status
\* >= 400 was received; no sensitive header keeps its value.
C28_Original_EveryRejectionCarriesDiagnostics ==
    Rejected =>
        /\ CarriesRequestInfo(promise.reason)
        /\ IF RejectedByStatus
           THEN CarriesResponseInfo(promise.reason)
           ELSE CarriesNoResponseInfo(promise.reason)

\* C28: every error request() rejects with after the request was issued (a
\* response with a status >= 400, or a connection-level error) carries the
\* request diagnostics, and carries a status code and sanitized response
\* headers exactly when a response with a status >= 400 was received; no
\* sensitive header keeps its value.  An exception thrown while the request
\* is issued rejects the promise without any diagnostics.
C28_RejectionsAfterIssueCarryDiagnostics ==
    /\ (Rejected /\ pcReq # "threw") =>
          /\ CarriesRequestInfo(promise.reason)
          /\ IF RejectedByStatus
             THEN CarriesResponseInfo(promise.reason)
             ELSE CarriesNoResponseInfo(promise.reason)
    /\ pcReq = "threw" =>
          /\ Rejected
          /\ ~promise.reason.hasRequestInfo
          /\ CarriesNoResponseInfo(promise.reason)

\* C28 witness: a request with an Authorization header was answered with
\* status 422 and a Set-Cookie header, and rejected with both redacted
C28_Witness ==
    /\ Rejected
    /\ RejectedByStatus
    /\ reqResponse.statusCode = 422
    /\ \E i \in 1..Len(reqArgs.options.headers.entries) :
        /\ reqArgs.options.headers.entries[i].key = HdrAuthorization
        /\ promise.reason.requestInfo.headers.entries[i].value = "[redacted]"
    /\ \E i \in 1..Len(reqResponse.headers.entries) :
        /\ reqResponse.headers.entries[i].key = HdrSetCookie
        /\ promise.reason.responseHeaders.entries[i].value = "[redacted]"


\* C30: once the response has ended or a connection error has occurred, the
\* promise request() returned is eventually settled, by exactly one resolve
\* or reject: it is fulfilled for a status below 400 whose body is valid JSON
\* and rejected otherwise, also when the body of a status below 400 is not
\* valid JSON.
C30_EventuallySettledOnce ==
    (pcReq \in {"ended", "failed"}) ~>
        /\ promise.calls = 1
        /\ promise.state =
              IF /\ pcReq = "ended"
                 /\ reqResponse.statusCode < ErrorStatus
                 /\ ParsesAsJson(data)
              THEN "fulfilled"
              ELSE "rejected"

\* the part of C30 the code keeps: the promise is never settled twice, a
\* connection error and a status >= 400 reject it, a status below 400 with a
\* JSON body fulfils it
C30_SettledAtMostOnce ==
    /\ promise.calls <= 1
    /\ pcReq = "failed" => promise.state = "rejected"
    /\ (pcReq = "ended" /\ reqResponse.statusCode >= ErrorStatus) =>
          promise.state = "rejected"
    /\ (pcReq = "ended" /\ reqResponse.statusCode < ErrorStatus /\ ParsesAsJson(data)) =>
          promise.state = "fulfilled"


(***************************************************************************)
(* Termination of the heuristic resolver (SpecHeuristicFair)               *)
(***************************************************************************)
\* the loop of attempts is entered
LoopEntered == ~ResolutionDisabled(opts) /\ ~RunIdMissing(opts)

\* the resolver returned, within the attempts it is allowed
ReturnedWithinAttempts ==
    /\ pc = "done"
    /\ IsResult(result)
    /\ attempt <= C9_MaxAttempts
    /\ (LoopEntered /\ ~IsInteger(opts.retries)) => attempt = 1

\* C29: when every network call eventually returns or fails and every sleep
\* eventually ends, every invocation of the heuristic resolver eventually
\* returns a result, after at most max(retries, 1) attempts, and after
\* exactly one attempt when retries is not an integer.
C29_EventuallyReturns == <>ReturnedWithinAttempts

\* C29 witness: with retries 2 every strategy of both attempts failed, the
\* resolver slept between them and returned after the second
C29_Witness ==
    /\ pc = "done"
    /\ opts.retries = Num(2)
    /\ attempt = 2
    /\ SleepsAt # {}
    /\ Len(CallsOfAttempt(2)) >= 1

====
